---------------------------- MODULE Spec2Model ----------------------------
(***************************************************************************)
(* A model of two parts of pyglossary:                                     *)
(*   - SqEntryList (pyglossary/sq_entry_list.py), the SQLite-backed        *)
(*     sortable entry store, checked under the specification SpecSq;       *)
(*   - the StarDict Writer (pyglossary/plugins/stardict.py), checked       *)
(*     under the specification SpecWriter.                                 *)
(***************************************************************************)
EXTENDS Integers, Sequences, FiniteSets, TLC

(***************************************************************************)
(* Bounds of the model.                                                    *)
(***************************************************************************)
\* the number of method calls made on one SqEntryList
MaxCalls == 5

\* the number of entries fed to one run of Writer.write()
MaxFeed == 2

\* the largest number of complete records of an .idx that the Reader reads
MaxIdxRecords == 2

\* the largest number of entries of a ZIM archive
MaxZimEntries == 3

\* the largest number of <entry> elements of an IUPAC document
MaxDocEntries == 3

(***************************************************************************)
(* General helpers.                                                        *)
(***************************************************************************)
Range(s) == {s[i] : i \in 1..Len(s)}

RECURSIVE SumSeq(_)
SumSeq(s) == IF s = <<>> THEN 0 ELSE Head(s) + SumSeq(Tail(s))

RECURSIVE Flatten(_)
Flatten(ss) == IF ss = <<>> THEN <<>> ELSE Head(ss) \o Flatten(Tail(ss))

\* lexicographic order on sequences of integers; a proper prefix comes first
\* (the order of Python tuples of ints and of Python bytes)
RECURSIVE SeqLess(_, _)
SeqLess(a, b) ==
    IF a = <<>> THEN b # <<>>
    ELSE IF b = <<>> THEN FALSE
    ELSE IF Head(a) # Head(b) THEN Head(a) < Head(b)
    ELSE SeqLess(Tail(a), Tail(b))

(***************************************************************************)
(*                     SqEntryList: sq_entry_list.py                       *)
(***************************************************************************)
VARIABLES
    alive,          \* the object has not been deleted yet (__del__ has not run)
    con,            \* self._con / self._cur: TRUE = open, FALSE = None
    orderBy,        \* self._orderBy: <<>> for "", else <<dir, columns>>
    sorted,         \* self._sorted
    reverse,        \* self._reverse
    len,            \* self._len
    create,         \* self._create
    persist,        \* self._persist
    sqliteSortKey,  \* self._sqliteSortKey: None or the sequence of column names
    columnNames,    \* self._columnNames: the sequence of the joined names
    fileExists,     \* isfile(self._filename)
    tableCols,      \* columns of table "data" in the file, or NoTable
    rows,           \* rows of table "data", in rowid order
    index,          \* columns of index "sortkey" in the file, or NoIndex
    op,             \* the last method called
    err,            \* the exception it raised, or "none"
    ncalls,         \* number of method calls so far
    iterated,       \* the entries yielded by the last full iteration
    sortCalled,     \* sort() has been called
    sortOk          \* number of sort() calls that returned normally

sqVars == <<alive, con, orderBy, sorted, reverse, len, create, persist,
            sqliteSortKey, columnNames, fileExists, tableCols, rows, index,
            op, err, ncalls, iterated, sortCalled, sortOk>>

\* the variables of the StarDict Writer (plugins/stardict.py)
VARIABLES
    wpc,              \* where the writer is: "new", "opened", "running",
                      \* "done" (write() returned), "failed" (write() raised)
    sametypesequence, \* self._sametypesequence: Null, "", "h" or "m"
    merge_syns,       \* self._merge_syns
    dictzip,          \* self._dictzip
    dictMark,         \* local dictMark of the running write*() generator
    entryIndex,       \* local entryIndex
    wordCount,        \* local wordCount
    altIndexList,     \* local altIndexList: <<b_alt, entryIndex>> tuples
    idxBlockList,     \* local idxBlockList: <<b_word, blockData>> tuples
    dictFile,         \* the file <filename>.dict
    idxFile,          \* the file <filename>.idx
    synFile,          \* the file <filename>.syn
    ifoFile,          \* the file <filename>.ifo
    resDir,           \* the directory res/
    dictZipped,       \* runDictzip was run on <filename>.dict
    fed               \* the entries sent to the generator so far

wrVars == <<wpc, sametypesequence, merge_syns, dictzip, dictMark, entryIndex,
            wordCount, altIndexList, idxBlockList, dictFile, idxFile, synFile,
            ifoFile, resDir, dictZipped, fed>>

\* the variables of the StarDict Reader (plugins/stardict.py)
VARIABLES
    rpc,               \* where the reader is: "new", "open", "iterating",
                       \* "exhausted", "raised", "closed"
    ifoSametypesequence, \* the sametypesequence of <filename>.ifo
    idxOnDisk,         \* the content of <filename>.idx
    synOnDisk,         \* the file <filename>.syn: whether it is there, its content
    dictOnDisk,        \* the content of <filename>.dict or of <filename>.dict.dz
    dictGz,            \* isfile(<filename>.dict.dz)
    resOnDisk,         \* os.listdir of res/, or <<>> when res/ is not there
    rDictFile,         \* self._dictFile: TRUE = open, FALSE = None
    indexData,         \* self._indexData
    synDict,           \* self._synDict
    rSametypesequence, \* self._sametypesequence
    rWordCount,        \* self._wordCount, -1 for None
    resFileNames,      \* self._resFileNames
    rEntryIndex,       \* the generator of __iter__: records passed so far
    rResIndex,         \* the generator of __iter__: files of res/ passed so far
    yielded            \* the items yielded by the generator so far

rdVars == <<rpc, ifoSametypesequence, idxOnDisk, synOnDisk, dictOnDisk, dictGz,
            resOnDisk, rDictFile, indexData, synDict, rSametypesequence,
            rWordCount, resFileNames, rEntryIndex, rResIndex, yielded>>

\* the variables of the ZIM Reader (plugins/zimfile.py)
VARIABLES
    zpc,            \* where the reader is: "new", "open", "iterating",
                    \* "exhausted", "raised", "closed"
    archive,        \* the entries of the archive file, by entry id from 0
    zimfile,        \* self._zimfile: TRUE = an Archive, FALSE = None
    zEntryIndex,    \* local entryIndex of the generator of __iter__
    mimetype,       \* local mimetype of the generator, Unbound before it is set
    zAtInvalid,     \* the generator is suspended at the yield of line 127
    zYielded        \* the items yielded so far, each with its entry id

zimVars == <<zpc, archive, zimfile, zEntryIndex, mimetype, zAtInvalid, zYielded>>

\* the variables of the IUPAC Reader (plugins/iupac_goldbook.py)
VARIABLES
    ipc,            \* where the reader is: "new", "open", "iterating",
                    \* "exhausted", "raised"
    document,       \* the <entry> elements of the file, in document order
    termByCode,     \* self._termByCode: pairs <<code, term>>, NoMap for None
    iPos,           \* <entry> elements the iterparse of __iter__ has passed
    iYielded        \* the entries yielded so far

iuVars == <<ipc, document, termByCode, iPos, iYielded>>

vars == <<sqVars, wrVars, rdVars, zimVars, iuVars>>

\* self._sqliteSortKey = None (line 69); every named sort key has a column
None == <<>>

\* the file has no table "data"; a table has at least the column "pickle"
NoTable == <<>>

\* the file has no index "sortkey"; an index has at least one column
NoIndex == <<>>

\* self._orderBy = "rowid" (line 64)
OrderByRowid == <<"ASC", <<"rowid">>>>

\* self._orderBy = ",".join(names) (lines 140-141); "" when there is no name
OrderByAsc(names) == IF names = <<>> THEN <<>> ELSE <<"ASC", names>>

\* self._orderBy = ",".join(f"{col[0]} DESC" ...) (lines 143-145)
OrderByDesc(names) == IF names = <<>> THEN <<>> ELSE <<"DESC", names>>

\* The headwords of the entries given to append(): small integers.
SqWords == {1, 2, 3}

\* The entries given to append(): a headword, and whether pickle.dumps
\* accepts the raw entry.
SqEntries == [word : SqWords, picklable : {TRUE}]
             \cup {[word |-> 1, picklable |-> FALSE]}

\* The named sort keys given to setSortKey(), each the sequence of its column
\* names.  KeyA has two columns; the extractor of KeyB's column raises on
\* headword 3.
KeyA == <<"wordlower", "word">>
KeyB == <<"strict">>
NamedSortKeys == {KeyA, KeyB}

\* col[2](entry.l_word): the value function of a sort-key column.
Extract(col, word) ==
    CASE col = "wordlower" -> (word + 1) \div 2
      [] col = "word" -> word
      [] col = "strict" -> word

\* col[2](entry.l_word) raises
ExtractRaises(col, word) == col = "strict" /\ word = 3

\* every column of names is a column of the table
HasColumns(names) ==
    /\ tableCols # NoTable
    /\ Range(names) \subseteq Range(tableCols)

\* sqlite: the rowid given to a new row
NextRowid == IF rows = <<>> THEN 1 ELSE rows[Len(rows)].rowid + 1

\* the value of a row in a column of the ORDER BY clause
ColValue(row, col) == IF col = "rowid" THEN row.rowid ELSE row.vals[col]

OrderKey(row, cols) == [i \in 1..Len(cols) |-> ColValue(row, cols[i])]

\* row a comes before row b under ORDER BY ob, rows of equal key in rowid
\* order (tie = "ASC") or in reverse rowid order (tie = "DESC")
RowBefore(a, b, ob, tie) ==
    LET ka == OrderKey(a, ob[2])
        kb == OrderKey(b, ob[2])
    IN  IF ka # kb
        THEN IF ob[1] = "ASC" THEN SeqLess(ka, kb) ELSE SeqLess(kb, ka)
        ELSE IF tie = "ASC" THEN a.rowid < b.rowid ELSE a.rowid > b.rowid

\* the rows in the order of "SELECT ... ORDER BY ob"
SelectOrdered(ob, tie) ==
    LET rs == Range(rows)
        rank(r) == Cardinality({q \in rs : RowBefore(q, r, ob, tie)})
    IN  [i \in 1..Len(rows) |-> CHOOSE r \in rs : rank(r) = i - 1]

\* SQL leaves the order of rows of equal ORDER BY key open.  sqlite either
\* sorts a table scan (rows of equal key stay in rowid order) or walks the
\* index "sortkey", forward for ASC and backward for DESC (rows of equal key
\* come in rowid order, resp. in reverse rowid order).
TieOrders(ob) ==
    {"ASC"} \cup (IF index # NoIndex /\ ob = <<"DESC", index>>
                  THEN {"DESC"} ELSE {})

\* Entry.fromRaw(glos, loads(row[0])) for every row
Loaded(rs) == [i \in 1..Len(rs) |-> rs[i].pickle]


\* The file found by connect(filename): a new empty database, or the one a
\* store with persist=True left behind (table "data" made for KeyA and one
\* row, with or without the index "sortkey").
PersistedRow ==
    [rowid |-> 1,
     vals |-> [c \in Range(KeyA) |-> Extract(c, 2)],
     pickle |-> [id |-> 0, word |-> 2, picklable |-> TRUE]]

ExistingFiles(cr) ==
    {[tableCols |-> NoTable, rows |-> <<>>, index |-> NoIndex]}
    \cup (IF cr THEN {}
          ELSE {[tableCols |-> KeyA \o <<"pickle">>, rows |-> <<PersistedRow>>,
                 index |-> ix] : ix \in {NoIndex, KeyA}})

\* __init__ (lines 41-70)
SqInit ==
    /\ alive = TRUE
    /\ con = TRUE
    /\ orderBy = OrderByRowid
    /\ sorted = FALSE
    /\ reverse = FALSE
    /\ len = 0
    /\ create \in BOOLEAN
    /\ persist \in BOOLEAN
    /\ sqliteSortKey = None
    /\ columnNames = <<>>
    /\ fileExists = TRUE
    /\ \E f \in ExistingFiles(create) :
          /\ tableCols = f.tableCols
          /\ rows = f.rows
          /\ index = f.index
    /\ op = "init"
    /\ err = "none"
    /\ ncalls = 0
    /\ iterated = <<>>
    /\ sortCalled = FALSE
    /\ sortOk = 0

\* a method is called on a live object; the call is recorded
Called(name) ==
    /\ alive
    /\ ncalls < MaxCalls
    /\ ncalls' = ncalls + 1
    /\ op' = name
    /\ UNCHANGED <<wrVars, rdVars, zimVars, iuVars>>

\* "if self._sqliteSortKey is not None: raise RuntimeError" (lines 82-83)
SetSortKeyTwiceMut == FALSE
SetSortKeyTwice == sqliteSortKey # None

\* _parseExistingIndex (lines 152-170): the new <<_sorted, _orderBy>>.  The
\* sql of the index is "CREATE INDEX sortkey ON data(<columns>)", which has
\* both parentheses, so the two error returns are not taken.
ParseExistingIndex ==
    IF index = NoIndex
    THEN <<sorted, orderBy>>
    ELSE <<TRUE, OrderByAsc(index)>>

\* setSortKey (lines 72-100)
SetSortKey(key) ==
    /\ Called("setSortKey")
    /\ IF SetSortKeyTwice
       THEN /\ err' = "RuntimeError"
            /\ UNCHANGED <<sqliteSortKey, columnNames, tableCols, sorted, orderBy>>
       ELSE /\ sqliteSortKey' = key
            /\ columnNames' = key
            /\ IF create
               THEN /\ err' = IF ~con THEN "AttributeError"
                              ELSE IF tableCols # NoTable THEN "OperationalError"
                              ELSE "none"
                    /\ tableCols' = IF con /\ tableCols = NoTable
                                    THEN key \o <<"pickle">>
                                    ELSE tableCols
                    /\ UNCHANGED <<sorted, orderBy>>
               ELSE /\ err' = IF ~con THEN "AttributeError" ELSE "none"
                    /\ sorted' = IF con THEN ParseExistingIndex[1] ELSE sorted
                    /\ orderBy' = IF con THEN ParseExistingIndex[2] ELSE orderBy
                    /\ UNCHANGED tableCols
    /\ UNCHANGED <<alive, con, reverse, len, create, persist, fileExists, rows,
                   index, iterated, sortCalled, sortOk>>

\* how append() ends (lines 105-125): the exception raised, or "none"
AppendOutcome(entry) ==
    IF sqliteSortKey = None THEN "TypeError"
    ELSE IF \E c \in Range(sqliteSortKey) : ExtractRaises(c, entry.word)
         THEN "ExtractorError"
    ELSE IF ~entry.picklable THEN "PicklingError"
    ELSE IF ~con THEN "AttributeError"
    ELSE IF ~HasColumns(columnNames \o <<"pickle">>) THEN "OperationalError"
    ELSE "none"

\* the row stored by "insert into data(...) values (...)" (lines 121-125)
NewRow(entry) ==
    [rowid |-> NextRowid,
     vals |-> [c \in Range(sqliteSortKey) |-> Extract(c, entry.word)],
     pickle |-> [id |-> ncalls + 1, word |-> entry.word,
                 picklable |-> entry.picklable]]

\* append (lines 105-127)
SqAppend(entry) ==
    /\ Called("append")
    /\ len' = len + 1
    /\ err' = AppendOutcome(entry)
    /\ rows' = IF AppendOutcome(entry) = "none"
               THEN Append(rows, NewRow(entry))
               ELSE rows
    /\ UNCHANGED <<alive, con, orderBy, sorted, reverse, create, persist,
                   sqliteSortKey, columnNames, fileExists, tableCols, index,
                   iterated, sortCalled, sortOk>>

\* "if self._sorted: raise NotImplementedError" (lines 135-136)
SortTwiceMut == FALSE
SortTwice == sorted

\* the ORDER BY clause chosen by sort(reverse) (lines 140-145)
SortOrderBy(rev) ==
    IF rev /\ sqliteSortKey # None
    THEN OrderByDesc(sqliteSortKey)
    ELSE OrderByAsc(columnNames)

\* how sort() ends once past its guard (lines 138-150)
SortOutcome(rev) ==
    IF rev /\ sqliteSortKey = None THEN "TypeError"
    ELSE IF ~con THEN "AttributeError"
    ELSE IF columnNames = <<>> \/ ~HasColumns(columnNames) \/ index # NoIndex
         THEN "OperationalError"
    ELSE "none"

\* sort (lines 134-150)
SqSort(rev) ==
    /\ Called("sort")
    /\ sortCalled' = TRUE
    /\ IF SortTwice
       THEN /\ err' = "NotImplementedError"
            /\ UNCHANGED <<reverse, sorted, orderBy, index, sortOk>>
       ELSE /\ reverse' = rev
            /\ sorted' = TRUE
            /\ orderBy' = SortOrderBy(rev)
            /\ err' = SortOutcome(rev)
            /\ index' = IF SortOutcome(rev) = "none" THEN columnNames ELSE index
            /\ sortOk' = IF SortOutcome(rev) = "none" THEN sortOk + 1 ELSE sortOk
    /\ UNCHANGED <<alive, con, len, create, persist, sqliteSortKey, columnNames,
                   fileExists, tableCols, rows, iterated>>

\* how "SELECT pickle FROM data ORDER BY ..." ends (lines 203-204)
IterOutcome ==
    IF ~con THEN "AttributeError"
    ELSE IF tableCols = NoTable \/ orderBy = <<>> THEN "OperationalError"
    ELSE IF orderBy[2] # <<"rowid">> /\ ~HasColumns(orderBy[2])
         THEN "OperationalError"
    ELSE "none"

\* __iter__ (lines 201-209), run to its end
SqIter ==
    /\ Called("iter")
    /\ err' = IterOutcome
    /\ IF IterOutcome = "none"
       THEN \E tie \in TieOrders(orderBy) :
               iterated' = Loaded(SelectOrdered(orderBy, tie))
       ELSE iterated' = <<>>
    /\ UNCHANGED <<alive, con, orderBy, sorted, reverse, len, create, persist,
                   sqliteSortKey, columnNames, fileExists, tableCols, rows,
                   index, sortCalled, sortOk>>

\* deleteAll (lines 172-179)
SqDeleteAll ==
    /\ Called("deleteAll")
    /\ IF ~con
       THEN /\ err' = "none"
            /\ UNCHANGED <<rows, len>>
       ELSE IF tableCols = NoTable
       THEN /\ err' = "OperationalError"
            /\ UNCHANGED <<rows, len>>
       ELSE /\ err' = "none"
            /\ rows' = <<>>
            /\ len' = 0
    /\ UNCHANGED <<alive, con, orderBy, sorted, reverse, create, persist,
                   sqliteSortKey, columnNames, fileExists, tableCols, index,
                   iterated, sortCalled, sortOk>>

\* what close() leaves of <<_con, isfile(_filename)>> (lines 184-191)
CloseEffectMut == <<FALSE, fileExists /\ persist>>
CloseEffect == <<FALSE, fileExists>>

\* close (lines 184-191)
SqClose ==
    /\ Called("close")
    /\ err' = "none"
    /\ con' = CloseEffect[1]
    /\ fileExists' = CloseEffect[2]
    /\ UNCHANGED <<alive, orderBy, sorted, reverse, len, create, persist,
                   sqliteSortKey, columnNames, tableCols, rows, index,
                   iterated, sortCalled, sortOk>>

\* clear (lines 181-182): self.close()
SqClear ==
    /\ Called("clear")
    /\ err' = "none"
    /\ con' = CloseEffect[1]
    /\ fileExists' = CloseEffect[2]
    /\ UNCHANGED <<alive, orderBy, sorted, reverse, len, create, persist,
                   sqliteSortKey, columnNames, tableCols, rows, index,
                   iterated, sortCalled, sortOk>>

\* "if not self._persist and isfile(self._filename): os.remove" (lines 196-197)
DelRemovesFile == ~persist /\ CloseEffect[2]

\* __del__ (lines 193-199)
SqDel ==
    /\ Called("del")
    /\ err' = "none"
    /\ alive' = FALSE
    /\ con' = CloseEffect[1]
    /\ IF DelRemovesFile
       THEN /\ fileExists' = FALSE
            /\ tableCols' = NoTable
            /\ rows' = <<>>
            /\ index' = NoIndex
       ELSE /\ fileExists' = CloseEffect[2]
            /\ UNCHANGED <<tableCols, rows, index>>
    /\ UNCHANGED <<orderBy, sorted, reverse, len, create, persist,
                   sqliteSortKey, columnNames, iterated, sortCalled, sortOk>>

SqNext ==
    \/ \E key \in NamedSortKeys : SetSortKey(key)
    \/ \E entry \in SqEntries : SqAppend(entry)
    \/ \E rev \in BOOLEAN : SqSort(rev)
    \/ SqIter
    \/ SqDeleteAll
    \/ SqClose
    \/ SqClear
    \/ SqDel

(***************************************************************************)
(* Claims about SqEntryList, checked under SpecSq.                         *)
(***************************************************************************)
\* the step is a call of the method name
IsCall(name) == ncalls' = ncalls + 1 /\ op' = name

\* the sort-key values of a yielded entry under the key given to setSortKey
EntryKey(e) == [i \in 1..Len(sqliteSortKey) |-> Extract(sqliteSortKey[i], e.word)]

\* C1: after appends to a new store and one successful sort(reverse), a full
\* iteration yields each stored entry exactly once, ordered by the sort-key
\* columns (ascending, or descending when reverse is true), and entries of
\* equal sort key come in their insertion order.
C1_IterationSortedAndStable ==
    (create /\ sortOk = 1 /\ op = "iter" /\ err = "none") =>
        /\ Len(iterated) = Len(rows)
        /\ Range(iterated) = {rows[i].pickle : i \in 1..Len(rows)}
        /\ \A i, j \in 1..Len(iterated) :
              i < j =>
                 LET ki == EntryKey(iterated[i])
                     kj == EntryKey(iterated[j])
                 IN  IF ki = kj
                     THEN iterated[i].id < iterated[j].id
                     ELSE IF reverse THEN SeqLess(kj, ki) ELSE SeqLess(ki, kj)

\* C2: once sort() has been called, every later append(entry) raises an
\* error and changes neither the stored entries nor len().
C2_AppendAfterSortRejected ==
    [][(sortCalled /\ IsCall("append")) =>
          (err' # "none" /\ rows' = rows /\ len' = len)]_vars

\* C3: when a sort key has been set and sort() has not been called yet,
\* iterating the store raises an error and yields no entry.
C3_IterateBeforeSortRejected ==
    [][(sqliteSortKey # None /\ ~sortCalled /\ IsCall("iter")) =>
          (err' # "none" /\ iterated' = <<>>)]_vars

\* C4: setSortKey succeeds at most once per store: a call made when a sort key
\* is already set raises RuntimeError and leaves the sort key, the column
\* names and the table (and the order and the index) unchanged; a call that
\* succeeds is one that found no sort key set, and a sort key once set never
\* changes.
C4_SetSortKeyOnce ==
    [][/\ (sqliteSortKey # None /\ IsCall("setSortKey")) =>
             /\ err' = "RuntimeError"
             /\ UNCHANGED <<sqliteSortKey, columnNames, tableCols, rows, index,
                            sorted, orderBy>>
       /\ (IsCall("setSortKey") /\ err' = "none") =>
             (sqliteSortKey = None /\ sqliteSortKey' # None)
       /\ (sqliteSortKey # None) =>
             UNCHANGED <<sqliteSortKey, columnNames>>
      ]_vars

C4_Witness ==
    /\ op = "setSortKey"
    /\ err = "RuntimeError"
    /\ sqliteSortKey # None
    /\ tableCols # NoTable

\* the store is ready for its first sort(): open, a sort key set, the table
\* there with the key's columns, and no index "sortkey" yet
ReadyToSort ==
    /\ con
    /\ ~sorted
    /\ sqliteSortKey # None
    /\ HasColumns(columnNames)
    /\ index = NoIndex

\* C5: sort succeeds exactly once per store: the first call on a store that is
\* ready for it succeeds and fixes the order and the direction; every call made
\* when the store is already sorted raises NotImplementedError and leaves the
\* order, the direction, the index and the rows unchanged; no store has two
\* successful sort calls; a store opened with create=False over a file that
\* has the index "sortkey" is already sorted once its sort key is set.
C5_SortOnce ==
    [][/\ (sorted /\ IsCall("sort")) =>
             /\ err' = "NotImplementedError"
             /\ UNCHANGED <<orderBy, reverse, sorted, index, rows, sortOk>>
       /\ (ReadyToSort /\ IsCall("sort")) =>
             /\ err' = "none"
             /\ sorted'
             /\ index' = columnNames
             /\ orderBy' = IF reverse' THEN OrderByDesc(columnNames)
                                       ELSE OrderByAsc(columnNames)
       /\ sortOk' <= 1
       /\ (sortOk = 1) => (sorted /\ sorted')
       /\ (~create /\ con /\ sqliteSortKey # None /\ index # NoIndex) => sorted
      ]_vars

C5_Witness ==
    /\ op = "sort"
    /\ err = "NotImplementedError"
    /\ sortOk = 1
    /\ reverse

\* C6: len() is the number of entries appended to the store since its creation
\* or its last deleteAll, and a full iteration yields that many entries.
C6_LenIsEntryCount ==
    /\ alive => len = Cardinality({i \in 1..Len(rows) : rows[i].pickle.id > 0})
    /\ (create /\ op = "iter" /\ err = "none") => Len(iterated) = len

\* C21: an append() that raises (no sort key set yet, a value function of the
\* sort key fails, pickle.dumps fails) leaves len() unchanged, and after every
\* append() or deleteAll() on a store that was created, len() is the number
\* of rows stored in the table.
C21_FailedAppendKeepsLen ==
    [][/\ (IsCall("append") /\ err' # "none") => len' = len
       /\ (create /\ (IsCall("append") \/ IsCall("deleteAll")))
             => len' = Len(rows')]_vars

\* C7 as stated: after close() the connection is released, and the backing
\* file exists exactly when the store was created with persist=True.
C7_CloseRemovesFile ==
    (op = "close") => (~con /\ fileExists = persist)

\* C7 amended: close() (and clear()) releases the connection and keeps the
\* backing file whatever persist is; the file is removed when the object is
\* deleted (__del__) and persist is false, and kept when persist is true.
C7_FileRemovedOnDel ==
    /\ (op \in {"close", "clear"}) => (~con /\ fileExists)
    /\ (op = "del") => (~con /\ ~alive /\ fileExists = persist)

C7_Witness ==
    /\ op = "close"
    /\ ~persist
    /\ ~con
    /\ fileExists

(***************************************************************************)
(*               StarDict Writer: plugins/stardict.py                      *)
(*                                                                         *)
(* Bytes are the integers 0..255, a bytes object or a file's content is a  *)
(* sequence of them, and a str is modelled by its UTF-8 bytes.  The        *)
(* options stardict_client and audio_goldendict keep their defaults        *)
(* (False, lines 543-545).                                                 *)
(***************************************************************************)
\* Python's None as the value of the option sametypesequence
Null == "null"

\* uint32ToBytes (pyglossary.text_utils): 4 bytes, big-endian
uint32ToBytes(n) ==
    <<(n \div 16777216) % 256, (n \div 65536) % 256, (n \div 256) % 256, n % 256>>

\* uint32FromBytes (pyglossary.text_utils): the inverse, on 4 bytes
uint32FromBytes(b) ==
    b[1] * 16777216 + b[2] * 65536 + b[3] * 256 + b[4]

\* bytes.lower(): the ASCII letters A-Z become a-z
Lower(b) == [i \in 1..Len(b) |-> IF b[i] \in 65..90 THEN b[i] + 32 ELSE b[i]]

\* byteSortKey (lines 566-570)
ByteSortKeyMut(b_word) == <<b_word, b_word>>
ByteSortKey(b_word) == <<Lower(b_word), b_word>>

\* the order of Python on the tuples made by byteSortKey
KeyBefore(a, b) ==
    \/ SeqLess(ByteSortKey(a)[1], ByteSortKey(b)[1])
    \/ /\ ByteSortKey(a)[1] = ByteSortKey(b)[1]
       /\ SeqLess(ByteSortKey(a)[2], ByteSortKey(b)[2])

\* list.sort(key=lambda x: self.byteSortKey(x[0])) (lines 798-800, 950):
\* a stable sort of a list of tuples on the key of their first item
RECURSIVE InsertByKey(_, _)
InsertByKey(x, list) ==
    IF list = <<>> THEN <<x>>
    ELSE IF KeyBefore(Head(list)[1], x[1])
    THEN <<Head(list)>> \o InsertByKey(x, Tail(list))
    ELSE <<x>> \o list

RECURSIVE SortByKey(_)
SortByKey(list) ==
    IF list = <<>> THEN <<>>
    ELSE InsertByKey(Head(list), SortByKey(Tail(list)))

\* a file of the output directory: whether it exists, whether this run wrote
\* it, and its content
NoFile == [exists |-> FALSE, fresh |-> FALSE, data |-> <<>>]
OpenedWb == [exists |-> TRUE, fresh |-> TRUE, data |-> <<>>]
Written(f, bytes) == [exists |-> TRUE, fresh |-> TRUE, data |-> f.data \o bytes]
Stale(bytes) == [exists |-> TRUE, fresh |-> FALSE, data |-> bytes]

\* the lines of an .ifo that the writer computes (lines 987-996); an empty
\* sametypesequence or a synwordcount of 0 means that the line is not there
NoIfo ==
    [exists |-> FALSE, fresh |-> FALSE, wordcount |-> 0, idxfilesize |-> 0,
     sametypesequence |-> "", synwordcount |-> 0]

\* The output directory as an earlier run of the writer left it (layout
\* compact, one entry with the headwords "a", "Z" and the definition "d").
StaleDict == Stale(<<100>>)
StaleIdx == Stale(<<97, 0>> \o uint32ToBytes(0) \o uint32ToBytes(1))
StaleSyn == Stale(<<90, 0>> \o uint32ToBytes(0))
StaleIfo ==
    [exists |-> TRUE, fresh |-> FALSE, wordcount |-> 1, idxfilesize |-> 10,
     sametypesequence |-> "m", synwordcount |-> 1]

\* The headwords of the entries fed: "Z", "a", "B", "A".
WrHeadwords == {<<<<90>>>>, <<<<97>>>>, <<<<66>>>>, <<<<90>>, <<97>>>>, <<<<66>>, <<65>>>>}

\* The definitions of the entries fed: "" and "de".
WrDefis == {<<>>, <<100, 101>>}

\* The entries fed to the generator: word entries of format "m", one of
\* format "h", and one data entry (named "f").
WrEntries ==
    [isData : {FALSE}, l_word : WrHeadwords, defi : WrDefis, defiFormat : {"m"}]
    \cup {[isData |-> FALSE, l_word |-> <<<<97>>>>, defi |-> <<100, 101>>,
           defiFormat |-> "h"]}
    \cup {[isData |-> TRUE, l_word |-> <<<<102>>>>, defi |-> <<1>>,
           defiFormat |-> "b"]}

\* What glos.collectDefiFormat(100) returns to open(): nothing, or the share
\* of each format in the sample, here in percent.
NoStat == [m |-> 0, h |-> 0, x |-> 0]
DefiFormatStats ==
    {NoStat,
     [m |-> 98, h |-> 2, x |-> 0],
     [m |-> 97, h |-> 3, x |-> 0],
     [m |-> 49, h |-> 51, x |-> 0],
     [m |-> 50, h |-> 50, x |-> 0]}

\* Writer.__init__ (lines 548-564) and the options set on the writer
WrInit ==
    /\ wpc = "new"
    /\ sametypesequence \in {Null, "", "h", "m"}
    /\ merge_syns \in BOOLEAN
    /\ dictzip \in BOOLEAN
    /\ dictMark = 0
    /\ entryIndex = -1
    /\ wordCount = 0
    /\ altIndexList = <<>>
    /\ idxBlockList = <<>>
    /\ \E stale \in BOOLEAN :
          /\ dictFile = IF stale THEN StaleDict ELSE NoFile
          /\ idxFile = IF stale THEN StaleIdx ELSE NoFile
          /\ synFile = IF stale THEN StaleSyn ELSE NoFile
          /\ ifoFile = IF stale THEN StaleIfo ELSE NoIfo
    /\ resDir = [exists |-> FALSE, files |-> {}]
    /\ dictZipped = FALSE
    /\ fed = <<>>

\* the sametypesequence that open() leaves (lines 602-613)
AutoSelect(sts, stat) ==
    IF sts # Null /\ sts # ""
    THEN sts
    ELSE IF sts # Null /\ stat # NoStat
    THEN IF stat.m > 97 THEN "m"
         ELSE IF stat.h > 50 THEN "h"
         ELSE sts
    ELSE sts

\* open (lines 578-613)
WrOpen(stat) ==
    /\ wpc = "new"
    /\ wpc' = "opened"
    /\ UNCHANGED <<sqVars, rdVars, zimVars, iuVars>>
    /\ sametypesequence' = AutoSelect(sametypesequence, stat)
    /\ UNCHANGED <<merge_syns, dictzip, dictMark, entryIndex, wordCount,
                   altIndexList, idxBlockList, dictFile, idxFile, synFile,
                   ifoFile, resDir, dictZipped, fed>>

\* write() takes the compact layout: "if self._sametypesequence" (line 617)
IsCompact == sametypesequence # Null /\ sametypesequence # ""

\* the start of a write*() generator, up to its first yield: the files are
\* opened "wb" and res/ is made (lines 664-677, 725-739, 829-841, 884-898)
WrStart ==
    /\ wpc = "opened"
    /\ wpc' = "running"
    /\ UNCHANGED <<sqVars, rdVars, zimVars, iuVars>>
    /\ dictMark' = 0
    /\ entryIndex' = -1
    /\ wordCount' = 0
    /\ altIndexList' = <<>>
    /\ idxBlockList' = <<>>
    /\ dictFile' = OpenedWb
    /\ idxFile' = IF merge_syns THEN idxFile ELSE OpenedWb
    /\ resDir' = [exists |-> TRUE, files |-> resDir.files]
    /\ UNCHANGED <<sametypesequence, merge_syns, dictzip, synFile, ifoFile,
                   dictZipped, fed>>

\* fixDefi (lines 630-652) with stardict_client and audio_goldendict off:
\* both ifs are skipped and defi is returned as it came
fixDefi(defi, defiFormat) == defi

\* the type letter of a definition format as a byte: "m", "h", "x"
FormatByte(defiFormat) ==
    CASE defiFormat = "m" -> 109
      [] defiFormat = "h" -> 104
      [] defiFormat = "x" -> 120

\* "dictMark += blockLen" (lines 702, 771, 862, 926)
NextDictMarkMut(mark, blockLen) == mark
NextDictMark(mark, blockLen) == mark + blockLen

\* entry.save(self._resDir) (lines 681, 743, 845, 902)
Save(entry) == [exists |-> TRUE, files |-> resDir.files \cup {entry.l_word[1]}]

\* "if not os.listdir(self._resDir): os.rmdir(self._resDir)" (lines 707-708)
RemoveIfEmpty ==
    IF resDir.files = {} THEN [exists |-> FALSE, files |-> {}] ELSE resDir

\* the bytes of the records b_alt + NUL + uint32ToBytes(entryIndex)
\* (lines 811-814)
SynBytesMut(list) ==
    Flatten([i \in 1..Len(list) |->
                list[i][1] \o <<0>> \o uint32ToBytes(list[i][2] + 1)])
SynBytes(list) ==
    Flatten([i \in 1..Len(list) |->
                list[i][1] \o <<0>> \o uint32ToBytes(list[i][2])])

\* writeSynFile (lines 788-817): the file .syn that it leaves
WriteSynFile(list) ==
    IF list = <<>>
    THEN synFile
    ELSE Written(OpenedWb, SynBytes(SortByKey(list)))

\* the bytes of the records key + NUL + value (lines 957-960)
IdxBytes(list) ==
    Flatten([i \in 1..Len(list) |-> list[i][1] \o <<0>> \o list[i][2]])

\* writeIdxFile (lines 942-964): <<the file .idx that it leaves, its result>>
WriteIdxFile(list) ==
    IF list = <<>>
    THEN <<idxFile, 0>>
    ELSE <<Written(OpenedWb, IdxBytes(SortByKey(list))), Len(list)>>

\* getsize(self._filename + ".idx") (line 977) raises when there is no file
IfoRaises(idx) == ~idx.exists

\* writeIfoFile (lines 966-1024): the file .ifo that it leaves
WriteIfoFile(idx, wc, synWordCount, defiFormat) ==
    [exists |-> TRUE, fresh |-> TRUE,
     wordcount |-> wc,
     idxfilesize |-> Len(idx.data),
     sametypesequence |-> defiFormat,
     synwordcount |-> IF synWordCount > 0 THEN synWordCount ELSE 0]

\* WriteCompact: one turn of its loop, from "entry = yield" on (lines 677-703)
WriteCompactFeed(entry) ==
    /\ wpc = "running"
    /\ UNCHANGED <<sqVars, rdVars, zimVars, iuVars>>
    /\ IsCompact /\ ~merge_syns
    /\ Len(fed) < MaxFeed
    /\ fed' = Append(fed, entry)
    /\ IF entry.isData
       THEN /\ resDir' = Save(entry)
            /\ UNCHANGED <<entryIndex, altIndexList, idxBlockList, dictFile,
                           idxFile, dictMark, wordCount>>
       ELSE LET b_dictBlock == fixDefi(entry.defi, sametypesequence)
                 blockLen == Len(b_dictBlock)
                 b_idxBlock == entry.l_word[1] \o <<0>> \o
                               uint32ToBytes(dictMark) \o uint32ToBytes(blockLen)
            IN   /\ entryIndex' = entryIndex + 1
                 /\ dictFile' = Written(dictFile, b_dictBlock)
                 /\ altIndexList' = altIndexList \o
                        [i \in 1..(Len(entry.l_word) - 1) |->
                            <<entry.l_word[i + 1], entryIndex + 1>>]
                 /\ idxFile' = Written(idxFile, b_idxBlock)
                 /\ wordCount' = wordCount + 1
                 /\ UNCHANGED idxBlockList
                 /\ dictMark' = NextDictMark(dictMark, blockLen)
                 /\ UNCHANGED resDir
    /\ UNCHANGED <<wpc, sametypesequence, merge_syns, dictzip, synFile,
                   ifoFile, dictZipped>>

\* WriteCompact: the sentinel None is sent, the loop ends and the files are
\* finished (lines 678-679, 705-716); then write() runs dictzip (lines 627-628)
WriteCompactEnd ==
    /\ wpc = "running"
    /\ UNCHANGED <<sqVars, rdVars, zimVars, iuVars>>
    /\ IsCompact /\ ~merge_syns
    /\ resDir' = RemoveIfEmpty
    /\ synFile' = WriteSynFile(altIndexList)
    /\ altIndexList' = IF altIndexList = <<>> THEN <<>> ELSE SortByKey(altIndexList)
    /\ IF IfoRaises(idxFile)
       THEN /\ wpc' = "failed"
            /\ UNCHANGED <<ifoFile, dictZipped>>
       ELSE /\ wpc' = "done"
            /\ ifoFile' = WriteIfoFile(idxFile, wordCount, Len(altIndexList), sametypesequence)
            /\ dictZipped' = dictzip
    /\ UNCHANGED <<sametypesequence, merge_syns, dictzip, dictMark, entryIndex,
                   wordCount, idxBlockList, dictFile, idxFile, fed>>

\* WriteGeneral: one turn of its loop, from "entry = yield" on (lines 739-772)
WriteGeneralFeed(entry) ==
    /\ wpc = "running"
    /\ UNCHANGED <<sqVars, rdVars, zimVars, iuVars>>
    /\ ~IsCompact /\ ~merge_syns
    /\ Len(fed) < MaxFeed
    /\ fed' = Append(fed, entry)
    /\ IF entry.isData
       THEN /\ resDir' = Save(entry)
            /\ UNCHANGED <<entryIndex, altIndexList, idxBlockList, dictFile,
                           idxFile, dictMark, wordCount>>
       ELSE LET b_dictBlock == <<FormatByte(entry.defiFormat)>> \o
                                fixDefi(entry.defi, entry.defiFormat) \o <<0>>
                 blockLen == Len(b_dictBlock)
                 b_idxBlock == entry.l_word[1] \o <<0>> \o
                               uint32ToBytes(dictMark) \o uint32ToBytes(blockLen)
            IN   /\ entryIndex' = entryIndex + 1
                 /\ dictFile' = Written(dictFile, b_dictBlock)
                 /\ altIndexList' = altIndexList \o
                        [i \in 1..(Len(entry.l_word) - 1) |->
                            <<entry.l_word[i + 1], entryIndex + 1>>]
                 /\ idxFile' = Written(idxFile, b_idxBlock)
                 /\ wordCount' = wordCount + 1
                 /\ UNCHANGED idxBlockList
                 /\ dictMark' = NextDictMark(dictMark, blockLen)
                 /\ UNCHANGED resDir
    /\ UNCHANGED <<wpc, sametypesequence, merge_syns, dictzip, synFile,
                   ifoFile, dictZipped>>

\* WriteGeneral: the sentinel None is sent, the loop ends and the files are
\* finished (lines 740-741, 774-786); then write() runs dictzip (lines 627-628)
WriteGeneralEnd ==
    /\ wpc = "running"
    /\ UNCHANGED <<sqVars, rdVars, zimVars, iuVars>>
    /\ ~IsCompact /\ ~merge_syns
    /\ resDir' = RemoveIfEmpty
    /\ synFile' = WriteSynFile(altIndexList)
    /\ altIndexList' = IF altIndexList = <<>> THEN <<>> ELSE SortByKey(altIndexList)
    /\ IF IfoRaises(idxFile)
       THEN /\ wpc' = "failed"
            /\ UNCHANGED <<ifoFile, dictZipped>>
       ELSE /\ wpc' = "done"
            /\ ifoFile' = WriteIfoFile(idxFile, wordCount, Len(altIndexList), "")
            /\ dictZipped' = dictzip
    /\ UNCHANGED <<sametypesequence, merge_syns, dictzip, dictMark, entryIndex,
                   wordCount, idxBlockList, dictFile, idxFile, fed>>

\* "for word in words: idxBlockList.append((word.encode("utf-8"),
\* blockData))" (lines 859-860, 923-924)
MergeIdxBlocksMut(words, blockData) == <<<<words[1], blockData>>>>
MergeIdxBlocks(words, blockData) ==
    [i \in 1..Len(words) |-> <<words[i], blockData>>]

\* WriteCompactMergeSyns: one turn of its loop, from "entry = yield" on (lines 841-862)
WriteCompactMergeSynsFeed(entry) ==
    /\ wpc = "running"
    /\ UNCHANGED <<sqVars, rdVars, zimVars, iuVars>>
    /\ IsCompact /\ merge_syns
    /\ Len(fed) < MaxFeed
    /\ fed' = Append(fed, entry)
    /\ IF entry.isData
       THEN /\ resDir' = Save(entry)
            /\ UNCHANGED <<entryIndex, altIndexList, idxBlockList, dictFile,
                           idxFile, dictMark, wordCount>>
       ELSE LET b_dictBlock == fixDefi(entry.defi, sametypesequence)
                 blockLen == Len(b_dictBlock)
                 blockData == uint32ToBytes(dictMark) \o uint32ToBytes(blockLen)
            IN   /\ entryIndex' = entryIndex + 1
                 /\ dictFile' = Written(dictFile, b_dictBlock)
                 /\ idxBlockList' = idxBlockList \o
                        MergeIdxBlocks(entry.l_word, blockData)
                 /\ UNCHANGED <<altIndexList, idxFile, wordCount>>
                 /\ dictMark' = NextDictMark(dictMark, blockLen)
                 /\ UNCHANGED resDir
    /\ UNCHANGED <<wpc, sametypesequence, merge_syns, dictzip, synFile,
                   ifoFile, dictZipped>>

\* WriteCompactMergeSyns: the sentinel None is sent, the loop ends and the files are
\* finished (lines 842-843, 864-875); then write() runs dictzip (lines 627-628)
WriteCompactMergeSynsEnd ==
    /\ wpc = "running"
    /\ UNCHANGED <<sqVars, rdVars, zimVars, iuVars>>
    /\ IsCompact /\ merge_syns
    /\ idxFile' = WriteIdxFile(idxBlockList)[1]
    /\ wordCount' = WriteIdxFile(idxBlockList)[2]
    /\ resDir' = RemoveIfEmpty
    /\ IF IfoRaises(WriteIdxFile(idxBlockList)[1])
       THEN /\ wpc' = "failed"
            /\ UNCHANGED <<ifoFile, dictZipped>>
       ELSE /\ wpc' = "done"
            /\ ifoFile' = WriteIfoFile(WriteIdxFile(idxBlockList)[1],
                                       WriteIdxFile(idxBlockList)[2],
                                       Len(altIndexList), sametypesequence)
            /\ dictZipped' = dictzip
    /\ UNCHANGED <<sametypesequence, merge_syns, dictzip, dictMark, entryIndex,
                   altIndexList, idxBlockList, dictFile, synFile, fed>>

\* WriteGeneralMergeSyns: one turn of its loop, from "entry = yield" on (lines 898-926)
WriteGeneralMergeSynsFeed(entry) ==
    /\ wpc = "running"
    /\ UNCHANGED <<sqVars, rdVars, zimVars, iuVars>>
    /\ ~IsCompact /\ merge_syns
    /\ Len(fed) < MaxFeed
    /\ fed' = Append(fed, entry)
    /\ IF entry.isData
       THEN /\ resDir' = Save(entry)
            /\ UNCHANGED <<entryIndex, altIndexList, idxBlockList, dictFile,
                           idxFile, dictMark, wordCount>>
       ELSE LET b_dictBlock == <<FormatByte(entry.defiFormat)>> \o
                                fixDefi(entry.defi, entry.defiFormat) \o <<0>>
                 blockLen == Len(b_dictBlock)
                 blockData == uint32ToBytes(dictMark) \o uint32ToBytes(blockLen)
            IN   /\ entryIndex' = entryIndex + 1
                 /\ dictFile' = Written(dictFile, b_dictBlock)
                 /\ idxBlockList' = idxBlockList \o
                        MergeIdxBlocks(entry.l_word, blockData)
                 /\ UNCHANGED <<altIndexList, idxFile, wordCount>>
                 /\ dictMark' = NextDictMark(dictMark, blockLen)
                 /\ UNCHANGED resDir
    /\ UNCHANGED <<wpc, sametypesequence, merge_syns, dictzip, synFile,
                   ifoFile, dictZipped>>

\* WriteGeneralMergeSyns: the sentinel None is sent, the loop ends and the files are
\* finished (lines 899-900, 928-940); then write() runs dictzip (lines 627-628)
WriteGeneralMergeSynsEnd ==
    /\ wpc = "running"
    /\ UNCHANGED <<sqVars, rdVars, zimVars, iuVars>>
    /\ ~IsCompact /\ merge_syns
    /\ idxFile' = WriteIdxFile(idxBlockList)[1]
    /\ wordCount' = WriteIdxFile(idxBlockList)[2]
    /\ resDir' = RemoveIfEmpty
    /\ IF IfoRaises(WriteIdxFile(idxBlockList)[1])
       THEN /\ wpc' = "failed"
            /\ UNCHANGED <<ifoFile, dictZipped>>
       ELSE /\ wpc' = "done"
            /\ ifoFile' = WriteIfoFile(WriteIdxFile(idxBlockList)[1],
                                       WriteIdxFile(idxBlockList)[2],
                                       Len(altIndexList), "")
            /\ dictZipped' = dictzip
    /\ UNCHANGED <<sametypesequence, merge_syns, dictzip, dictMark, entryIndex,
                   altIndexList, idxBlockList, dictFile, synFile, fed>>

WrNext ==
    \/ \E stat \in DefiFormatStats : WrOpen(stat)
    \/ WrStart
    \/ \E entry \in WrEntries : WriteCompactFeed(entry)
    \/ WriteCompactEnd
    \/ \E entry \in WrEntries : WriteGeneralFeed(entry)
    \/ WriteGeneralEnd
    \/ \E entry \in WrEntries : WriteCompactMergeSynsFeed(entry)
    \/ WriteCompactMergeSynsEnd
    \/ \E entry \in WrEntries : WriteGeneralMergeSynsFeed(entry)
    \/ WriteGeneralMergeSynsEnd

(***************************************************************************)
(* The records of the files written, as the StarDict Reader scans them.    *)
(***************************************************************************)
\* bytes.find(b"\x00", beg): the position (from 0) of the first NUL at or
\* after beg, or -1
RECURSIVE FindNul(_, _)
FindNul(bytes, beg) ==
    IF beg >= Len(bytes) THEN -1
    ELSE IF bytes[beg + 1] = 0 THEN beg
    ELSE FindNul(bytes, beg + 1)

\* the loop of readIdxFile (lines 221-240) from position pos on: the tuples
\* <<b_word, offset, size>>
ScanIdxMut(idxBytes, pos) ==
    IF pos >= Len(idxBytes) THEN <<>>
    ELSE LET nul == FindNul(idxBytes, pos)
         IN  IF nul < 0 THEN <<>>
             ELSE IF nul + 1 + 8 > Len(idxBytes) THEN <<>>
             ELSE <<<<SubSeq(idxBytes, pos + 1, nul),
                      uint32FromBytes(SubSeq(idxBytes, nul + 2, nul + 5)),
                      uint32FromBytes(SubSeq(idxBytes, nul + 6, nul + 9))>>>>

RECURSIVE ScanIdx(_, _)
ScanIdx(idxBytes, pos) ==
    IF pos >= Len(idxBytes) THEN <<>>
    ELSE LET nul == FindNul(idxBytes, pos)
         IN  IF nul < 0 THEN <<>>
             ELSE IF nul + 1 + 8 > Len(idxBytes) THEN <<>>
             ELSE <<<<SubSeq(idxBytes, pos + 1, nul),
                      uint32FromBytes(SubSeq(idxBytes, nul + 2, nul + 5)),
                      uint32FromBytes(SubSeq(idxBytes, nul + 6, nul + 9))>>>>
                  \o ScanIdx(idxBytes, nul + 9)

\* the scan of readSynFile (lines 417-430) from position pos on, before it
\* drops any record: the tuples <<b_alt, entryIndex>>
RECURSIVE ScanSyn(_, _)
ScanSyn(synBytes, pos) ==
    IF pos >= Len(synBytes) THEN <<>>
    ELSE LET nul == FindNul(synBytes, pos)
         IN  IF nul < 0 THEN <<>>
             ELSE IF nul + 1 + 4 > Len(synBytes) THEN <<>>
             ELSE <<<<SubSeq(synBytes, pos + 1, nul),
                      uint32FromBytes(SubSeq(synBytes, nul + 2, nul + 5))>>>>
                  \o ScanSyn(synBytes, nul + 5)

(***************************************************************************)
(*               StarDict Reader: plugins/stardict.py                      *)
(*                                                                         *)
(* The option unicode_errors keeps its default, and the bytes of the files *)
(* are ASCII, so that decoding a word or a definition changes no byte.  No *)
(* definition has the type "x", which is handed to the XDXF transformer.   *)
(***************************************************************************)
\* a parse*() that returns None, and one that returns the list of
\* (b_defi, defiFormatCode) tuples
NoParse == [ok |-> FALSE, parts |-> <<>>]
Parsed(parts) == [ok |-> TRUE, parts |-> parts]

\* bytes([t]).islower(), .isupper(), .isalpha()
IsLower(t) == t \in 97..122
IsUpper(t) == t \in 65..90
IsAlpha(t) == IsLower(t) \/ IsUpper(t)

\* parseDefiBlockCompact (lines 447-495) for a sametypesequence of one
\* letter, the only ones verifySameTypeSequence admits (lines 103-107): the
\* loop over b_sametypesequence[:-1] has no turn and i stays 0
EmptyBlock(b_block) == 0 >= Len(b_block)

parseDefiBlockCompact(b_block, sts) ==
    LET t == FormatByte(sts)
    IN  IF EmptyBlock(b_block) THEN NoParse
        ELSE IF IsLower(t)
        THEN IF 0 \in Range(b_block) THEN NoParse
             ELSE Parsed(<<<<b_block, t>>>>)
        ELSE Parsed(<<<<b_block, t>>>>)

\* parseDefiBlockGeneral (lines 497-529): the loop from position i on
RECURSIVE ParseGeneralFrom(_, _)
ParseGeneralFrom(b_block, i) ==
    IF i >= Len(b_block) THEN Parsed(<<>>)
    ELSE LET t == b_block[i + 1]
         IN  IF ~IsAlpha(t) THEN NoParse
             ELSE IF IsLower(t)
             THEN LET nul == FindNul(b_block, i + 1)
                      rest == ParseGeneralFrom(b_block, nul + 1)
                  IN  IF nul < 0 THEN NoParse
                      ELSE IF ~rest.ok THEN NoParse
                      ELSE Parsed(<<<<SubSeq(b_block, i + 2, nul), t>>>> \o rest.parts)
             ELSE IF i + 1 + 4 > Len(b_block) THEN NoParse
             ELSE LET size == uint32FromBytes(SubSeq(b_block, i + 2, i + 5))
                      rest == ParseGeneralFrom(b_block, i + 5 + size)
                  IN  IF i + 5 + size > Len(b_block) THEN NoParse
                      ELSE IF ~rest.ok THEN NoParse
                      ELSE Parsed(<<<<SubSeq(b_block, i + 6, i + 5 + size), t>>>>
                                  \o rest.parts)

parseDefiBlockGeneral(b_block) == ParseGeneralFrom(b_block, 0)

\* decodeRawDefiPart (lines 242-288): the format of a type byte, "" for a
\* type that is not supported
DecodeFormat(i_type) ==
    CASE i_type \in {109, 116, 121} -> "m"
      [] i_type \in {103, 104} -> "h"
      [] OTHER -> ""

\* sep.join(list)
RECURSIVE Join(_, _)
Join(list, sep) ==
    IF list = <<>> THEN <<>>
    ELSE IF Len(list) = 1 THEN list[1]
    ELSE list[1] \o sep \o Join(Tail(list), sep)

\* _defi.replace("\n", "<br/>")
RECURSIVE ReplaceNewlines(_)
ReplaceNewlines(b) ==
    IF b = <<>> THEN <<>>
    ELSE (IF Head(b) = 10 THEN <<60, 98, 114, 47, 62>> ELSE <<Head(b)>>)
         \o ReplaceNewlines(Tail(b))

\* renderRawDefiList (lines 290-336): <<defi, defiFormat>>
renderRawDefiList(rawDefiList) ==
    LET formats == [i \in 1..Len(rawDefiList) |-> DecodeFormat(rawDefiList[i][2])]
        defis == [i \in 1..Len(rawDefiList) |-> rawDefiList[i][1]]
        pre == [i \in 1..Len(rawDefiList) |->
                   IF formats[i] = "m"
                   THEN <<60, 112, 114, 101, 62>> \o ReplaceNewlines(defis[i])
                        \o <<60, 47, 112, 114, 101, 62>>
                   ELSE defis[i]]
    IN  IF Len(rawDefiList) = 1 THEN <<defis[1], formats[1]>>
        ELSE IF Cardinality(Range(formats)) = 1
        THEN IF formats[1] = "h"
             THEN <<Join(defis, <<10, 60, 104, 114, 62>>), "h">>
             ELSE <<Join(defis, <<10>>), formats[1]>>
        ELSE IF Range(formats) = {} THEN <<<<>>, "">>
        ELSE <<Join(pre, <<10, 60, 104, 114, 62, 10>>), "h">>

\* "if entryIndex >= self._wordCount: ... continue" (lines 431-436)
SynInvalidMut(entryIndex_, wordCount_) == entryIndex_ > wordCount_
SynInvalid(entryIndex_, wordCount_) == entryIndex_ >= wordCount_

\* readSynFile (lines 405-445): the dict { entryIndex -> altList }
readSynFile(syn, wordCount_) ==
    IF ~syn.exists THEN <<>>
    ELSE LET kept == SelectSeq(ScanSyn(syn.data, 0),
                               LAMBDA r : ~SynInvalid(r[2], wordCount_))
             altsOf(i) == LET sel == SelectSeq(kept, LAMBDA r : r[2] = i)
                          IN  [j \in 1..Len(sel) |-> sel[j][1]]
         IN  [i \in {kept[j][2] : j \in 1..Len(kept)} |-> altsOf(i)]

\* dictFile.seek(defiOffset); dictFile.tell() (lines 356-357): a seek past
\* the end of a plain file succeeds, a GzipFile stops at the end of the data
TellAfterSeek(dict, gz, defiOffset) ==
    IF gz /\ defiOffset > Len(dict) THEN Len(dict) ELSE defiOffset

\* dictFile.read(defiSize) after the seek (line 361)
ReadBlock(dict, defiOffset, defiSize) ==
    SubSeq(dict, defiOffset + 1,
           IF defiOffset + defiSize > Len(dict) THEN Len(dict)
           ELSE defiOffset + defiSize)

\* an item yielded by __iter__: glos.newEntry (line 394) and
\* glos.newDataEntry (lines 400-403); index is the entryIndex of its record
NoItem == [ok |-> FALSE]
WordItem(entryIndex_, l_word, defi, defiFormat) ==
    [ok |-> TRUE,
     item |-> [isData |-> FALSE, index |-> entryIndex_, l_word |-> l_word,
               defi |-> defi, defiFormat |-> defiFormat]]
DataItem(fname) ==
    [isData |-> TRUE, index |-> -1, l_word |-> <<fname>>, defi |-> <<>>,
     defiFormat |-> "b"]

\* one turn of the loop of __iter__ (lines 352-394) on record entryIndex_:
\* the entry it yields, or NoItem when it takes a "continue"
RecordItem(index_, syns, sts, dict, gz, entryIndex_) ==
    LET b_word == index_[entryIndex_ + 1][1]
        defiOffset == index_[entryIndex_ + 1][2]
        defiSize == index_[entryIndex_ + 1][3]
        b_defiBlock == ReadBlock(dict, defiOffset, defiSize)
        rawDefiList == IF sts # "" THEN parseDefiBlockCompact(b_defiBlock, sts)
                       ELSE parseDefiBlockGeneral(b_defiBlock)
        alts == IF entryIndex_ \in DOMAIN syns THEN syns[entryIndex_] ELSE <<>>
        rendered == renderRawDefiList(rawDefiList.parts)
    IN  IF b_word = <<>> THEN NoItem
        ELSE IF TellAfterSeek(dict, gz, defiOffset) # defiOffset THEN NoItem
        ELSE IF Len(b_defiBlock) # defiSize THEN NoItem
        ELSE IF ~rawDefiList.ok THEN NoItem
        ELSE WordItem(entryIndex_, <<b_word>> \o alts, rendered[1], rendered[2])

\* The file .dict read: the blocks "md\0", "he\0" and "1".
RdDict == <<109, 100, 0, 104, 101, 0, 49>>

\* The records of the .idx read, (word, offset, size): blocks that parse in
\* the general layout ("a", "b", and "g" with two parts), blocks that parse
\* in the compact layout ("c", "d"), a size that reaches past the end of
\* .dict ("e"), an offset past the end of .dict with size 0 ("f"), an empty
\* block ("h"), and a record whose word is empty.
RdRecords ==
    {<<<<97>>, 0, 3>>, <<<<98>>, 3, 3>>, <<<<103>>, 0, 6>>,
     <<<<99>>, 0, 2>>, <<<<100>>, 6, 1>>,
     <<<<101>>, 5, 4>>, <<<<102>>, 9, 0>>, <<<<104>>, 0, 0>>,
     <<<<>>, 0, 3>>}

\* The ends of the .idx read: none, a word without NUL, and a word with NUL
\* and 4 bytes.
RdIdxTails == {<<>>, <<122>>, <<122, 0, 0, 0, 0, 1>>}

\* the bytes of index records (word, offset, size)
IdxRecordBytes(records) ==
    Flatten([i \in 1..Len(records) |->
                records[i][1] \o <<0>> \o uint32ToBytes(records[i][2])
                \o uint32ToBytes(records[i][3])])

\* The files .syn read: none, alternates "A", "C", "B" of the entries 0, 2,
\* 0, and alternates "B", "A" of entry 1 followed by a word without NUL.
RdSynFiles ==
    {[exists |-> FALSE, data |-> <<>>],
     [exists |-> TRUE,
      data |-> SynBytes(<<<<<<65>>, 0>>, <<<<67>>, 2>>, <<<<66>>, 0>>>>)],
     [exists |-> TRUE,
      data |-> SynBytes(<<<<<<66>>, 1>>, <<<<65>>, 1>>>>) \o <<68>>]}

\* The directory res/ read: not there, or with the files "r" and "s".
RdResDirs == {<<>>, <<<<114>>, <<115>>>>}

\* sequences of at most n items of the set
RECURSIVE SeqsUpTo(_, _)
SeqsUpTo(set, n) ==
    IF n = 0 THEN {<<>>}
    ELSE LET shorter == SeqsUpTo(set, n - 1)
         IN  shorter \cup {Append(q, x) : q \in shorter, x \in set}

\* Reader.__init__ and clear (lines 114-117, 152-160), beside the files of
\* a dictionary
RdInit ==
    /\ rpc = "new"
    /\ ifoSametypesequence \in {"", "m"}
    /\ \E records \in SeqsUpTo(RdRecords, MaxIdxRecords), tail \in RdIdxTails :
          idxOnDisk = IdxRecordBytes(records) \o tail
    /\ synOnDisk \in RdSynFiles
    /\ dictOnDisk = RdDict
    /\ dictGz \in BOOLEAN
    /\ resOnDisk \in RdResDirs
    /\ rDictFile = FALSE
    /\ indexData = <<>>
    /\ synDict = <<>>
    /\ rSametypesequence = ""
    /\ rWordCount = -1
    /\ resFileNames = <<>>
    /\ rEntryIndex = 0
    /\ rResIndex = 0
    /\ yielded = <<>>

\* open (lines 162-187)
RdOpen ==
    /\ rpc = "new"
    /\ rpc' = "open"
    /\ indexData' = ScanIdx(idxOnDisk, 0)
    /\ rWordCount' = Len(ScanIdx(idxOnDisk, 0))
    /\ synDict' = readSynFile(synOnDisk, Len(ScanIdx(idxOnDisk, 0)))
    /\ rSametypesequence' = ifoSametypesequence
    /\ rDictFile' = TRUE
    /\ resFileNames' = resOnDisk
    /\ UNCHANGED <<ifoSametypesequence, idxOnDisk, synOnDisk, dictOnDisk, dictGz,
                   resOnDisk, rEntryIndex, rResIndex, yielded>>
    /\ UNCHANGED <<sqVars, wrVars, zimVars, iuVars>>

\* __len__ (lines 189-194), on an open reader
ReaderLenMut == rWordCount
ReaderLen == rWordCount + Len(resFileNames)

\* the records from entryIndex_ on whose turn of the loop reaches the yield
YieldingFrom(entryIndex_) ==
    {k \in entryIndex_..(Len(indexData) - 1) :
        RecordItem(indexData, synDict, rSametypesequence, dictOnDisk, dictGz, k).ok}

\* next() on the generator of __iter__ (lines 338-403): it runs to its next
\* yield, or to its end
RdIterNext ==
    /\ rpc \in {"new", "open", "iterating", "closed"}
    /\ UNCHANGED <<ifoSametypesequence, idxOnDisk, synOnDisk, dictOnDisk, dictGz,
                   resOnDisk, rDictFile, indexData, synDict, rSametypesequence,
                   rWordCount, resFileNames>>
    /\ UNCHANGED <<sqVars, wrVars, zimVars, iuVars>>
    /\ IF ~rDictFile
       THEN /\ rpc' = "raised"
            /\ UNCHANGED <<rEntryIndex, rResIndex, yielded>>
       ELSE IF rpc = "open" /\ indexData = <<>>
       THEN /\ rpc' = "exhausted"
            /\ UNCHANGED <<rEntryIndex, rResIndex, yielded>>
       ELSE IF YieldingFrom(rEntryIndex) # {}
       THEN LET k == CHOOSE k \in YieldingFrom(rEntryIndex) :
                        \A j \in YieldingFrom(rEntryIndex) : k <= j
            IN  /\ rpc' = "iterating"
                /\ rEntryIndex' = k + 1
                /\ yielded' = Append(yielded,
                       RecordItem(indexData, synDict, rSametypesequence,
                                  dictOnDisk, dictGz, k).item)
                /\ UNCHANGED rResIndex
       ELSE IF rResIndex < Len(resOnDisk)
       THEN /\ rpc' = "iterating"
            /\ rEntryIndex' = Len(indexData)
            /\ rResIndex' = rResIndex + 1
            /\ yielded' = Append(yielded, DataItem(resOnDisk[rResIndex + 1]))
       ELSE /\ rpc' = "exhausted"
            /\ rEntryIndex' = Len(indexData)
            /\ UNCHANGED <<rResIndex, yielded>>

\* close (lines 147-150) with clear (lines 152-160), of a reader whose
\* generator is not suspended
RdClose ==
    /\ rpc \in {"open", "exhausted"}
    /\ rpc' = "closed"
    /\ rDictFile' = FALSE
    /\ indexData' = <<>>
    /\ synDict' = <<>>
    /\ rSametypesequence' = ""
    /\ resFileNames' = <<>>
    /\ rWordCount' = -1
    /\ UNCHANGED <<ifoSametypesequence, idxOnDisk, synOnDisk, dictOnDisk, dictGz,
                   resOnDisk, rEntryIndex, rResIndex, yielded>>
    /\ UNCHANGED <<sqVars, wrVars, zimVars, iuVars>>

RdNext ==
    \/ RdOpen
    \/ RdIterNext
    \/ RdClose

(***************************************************************************)
(*                    ZIM Reader: plugins/zimfile.py                       *)
(***************************************************************************)
\* a local variable that no statement has assigned yet
Unbound == "unbound"

\* zItem.mimetype raises RuntimeError (lines 123-125)
InvalidMime == "invalid"

\* The entries of an archive: a redirect, an item without content, items of
\* the types text/html;raw=true, text/plain, image/png (a resource type of
\* lines 34-53) and application/x-unknown (no resource type), an image whose
\* title is longer than f_namemax, and an item whose MIME type cannot be
\* read.
ZimEntries ==
    {[is_redirect |-> TRUE, empty |-> FALSE, mime |-> "none", longTitle |-> FALSE],
     [is_redirect |-> FALSE, empty |-> TRUE, mime |-> "none", longTitle |-> FALSE],
     [is_redirect |-> FALSE, empty |-> FALSE, mime |-> "text/html;raw=true", longTitle |-> FALSE],
     [is_redirect |-> FALSE, empty |-> FALSE, mime |-> "text/plain", longTitle |-> FALSE],
     [is_redirect |-> FALSE, empty |-> FALSE, mime |-> "image/png", longTitle |-> FALSE],
     [is_redirect |-> FALSE, empty |-> FALSE, mime |-> "application/x-unknown", longTitle |-> FALSE],
     [is_redirect |-> FALSE, empty |-> FALSE, mime |-> "image/png", longTitle |-> TRUE],
     [is_redirect |-> FALSE, empty |-> FALSE, mime |-> InvalidMime, longTitle |-> FALSE]}

\* Reader.__init__ (lines 55-58), beside an archive file
ZimInit ==
    /\ zpc = "new"
    /\ archive \in SeqsUpTo(ZimEntries, MaxZimEntries)
    /\ zimfile = FALSE
    /\ zEntryIndex = 0
    /\ mimetype = Unbound
    /\ zAtInvalid = FALSE
    /\ zYielded = <<>>

\* open (lines 60-68)
ZimOpen ==
    /\ zpc = "new"
    /\ zpc' = "open"
    /\ zimfile' = TRUE
    /\ UNCHANGED <<archive, zEntryIndex, mimetype, zAtInvalid, zYielded>>
    /\ UNCHANGED <<sqVars, wrVars, rdVars, iuVars>>

\* mimetype.startswith("text/html") (line 129)
StartsWithTextHtml(mt) == mt \in {"text/html", "text/html;raw=true"}

\* what a run of the generator ends with: a yield, its end, or an exception
ZimYield(id, kind, defiFormat, next, mt, atInvalid) ==
    [how |-> "yield", item |-> [id |-> id, kind |-> kind, defiFormat |-> defiFormat],
     next |-> next, mimetype |-> mt, atInvalid |-> atInvalid]
ZimEnd(next, mt) ==
    [how |-> "end", item |-> [id |-> -1, kind |-> "none", defiFormat |-> ""],
     next |-> next, mimetype |-> mt, atInvalid |-> FALSE]
ZimRaise(next, mt) ==
    [how |-> "raise", item |-> [id |-> -1, kind |-> "none", defiFormat |-> ""],
     next |-> next, mimetype |-> mt, atInvalid |-> FALSE]

\* The loop of __iter__ (lines 93-153) run to its next yield: from the top of
\* the turn of entry entryIndex_, or, with resumed, from the statement after
\* the yield of line 127 in that turn, which is the test of line 129 (the
\* except clause has no continue).  mt is the local mimetype.
RECURSIVE ZimRun(_, _, _)
ZimRun(entryIndex_, mt, resumed) ==
    IF entryIndex_ >= Len(archive) THEN ZimEnd(entryIndex_, mt)
    ELSE LET zEntry == archive[entryIndex_ + 1]
         IN  IF ~resumed /\ zEntry.is_redirect
             THEN ZimYield(entryIndex_, "entry", "h", entryIndex_ + 1, mt, FALSE)
             ELSE IF ~resumed /\ zEntry.empty
             THEN ZimYield(entryIndex_, "none", "", entryIndex_ + 1, mt, FALSE)
             ELSE IF ~resumed /\ zEntry.mime = InvalidMime
             THEN ZimYield(entryIndex_, "data", "b", entryIndex_, mt, TRUE)
             ELSE LET mimetype_ == IF resumed THEN mt ELSE zEntry.mime
                  IN  IF mimetype_ = Unbound THEN ZimRaise(entryIndex_, mt)
                      ELSE IF StartsWithTextHtml(mimetype_)
                      THEN ZimYield(entryIndex_, "entry", "h", entryIndex_ + 1,
                                    mimetype_, FALSE)
                      ELSE IF mimetype_ = "text/plain"
                      THEN ZimYield(entryIndex_, "entry", "m", entryIndex_ + 1,
                                    mimetype_, FALSE)
                      ELSE IF zEntry.longTitle
                      THEN ZimRun(entryIndex_ + 1, mimetype_, FALSE)
                      ELSE ZimYield(entryIndex_, "data", "b", entryIndex_ + 1,
                                    mimetype_, FALSE)

\* next() on the generator of __iter__ (lines 80-165)
ZimIterNext ==
    /\ zpc \in {"new", "open", "iterating", "closed"}
    /\ UNCHANGED <<archive, zimfile>>
    /\ UNCHANGED <<sqVars, wrVars, rdVars, iuVars>>
    /\ IF ~zimfile
       THEN /\ zpc' = "raised"
            /\ UNCHANGED <<zEntryIndex, mimetype, zAtInvalid, zYielded>>
       ELSE LET run == ZimRun(zEntryIndex, mimetype, zAtInvalid)
            IN  /\ zpc' = CASE run.how = "yield" -> "iterating"
                            [] run.how = "end" -> "exhausted"
                            [] run.how = "raise" -> "raised"
                /\ zEntryIndex' = run.next
                /\ mimetype' = run.mimetype
                /\ zAtInvalid' = run.atInvalid
                /\ zYielded' = IF run.how = "yield"
                               THEN Append(zYielded, run.item)
                               ELSE zYielded

\* close (lines 70-72), of a reader whose generator is not suspended
ZimClose ==
    /\ zpc \in {"open", "exhausted", "raised"}
    /\ zpc' = "closed"
    /\ zimfile' = FALSE
    /\ UNCHANGED <<archive, zEntryIndex, mimetype, zAtInvalid, zYielded>>
    /\ UNCHANGED <<sqVars, wrVars, rdVars, iuVars>>

ZimNext ==
    \/ ZimOpen
    \/ ZimIterNext
    \/ ZimClose

(***************************************************************************)
(*               IUPAC Reader: plugins/iupac_goldbook.py                   *)
(*                                                                         *)
(* A str is the sequence of its characters; the characters 1 and 2 stand   *)
(* for the tags <i> and </i> inside a <term>.                              *)
(***************************************************************************)
\* self._termByCode = None (line 32)
NoMap == <<>>

\* the <entry> elements of a document: code "A" with term "a" and
\* <replacedby> x.B; code "A" with term "a" and a <related> entry u/B; code
\* "B" with term <i>b</i>; code "B" without <term>; term "b" without <code>;
\* code "B" with an empty <term>; code "A" with term "a" and <replacedby> x.C
DocEntries ==
    {[hasCode |-> TRUE, code |-> <<65>>, hasTerm |-> TRUE, term |-> <<97>>,
      hasReplacedby |-> TRUE, replacedby |-> <<120, 46, 66>>, related |-> <<>>],
     [hasCode |-> TRUE, code |-> <<65>>, hasTerm |-> TRUE, term |-> <<97>>,
      hasReplacedby |-> FALSE, replacedby |-> <<>>, related |-> <<<<117, 47, 66>>>>],
     [hasCode |-> TRUE, code |-> <<66>>, hasTerm |-> TRUE, term |-> <<1, 98, 2>>,
      hasReplacedby |-> FALSE, replacedby |-> <<>>, related |-> <<>>],
     [hasCode |-> TRUE, code |-> <<66>>, hasTerm |-> FALSE, term |-> <<>>,
      hasReplacedby |-> FALSE, replacedby |-> <<>>, related |-> <<>>],
     [hasCode |-> FALSE, code |-> <<>>, hasTerm |-> TRUE, term |-> <<98>>,
      hasReplacedby |-> FALSE, replacedby |-> <<>>, related |-> <<>>],
     [hasCode |-> TRUE, code |-> <<66>>, hasTerm |-> TRUE, term |-> <<>>,
      hasReplacedby |-> FALSE, replacedby |-> <<>>, related |-> <<>>],
     [hasCode |-> TRUE, code |-> <<65>>, hasTerm |-> TRUE, term |-> <<97>>,
      hasReplacedby |-> TRUE, replacedby |-> <<120, 46, 67>>, related |-> <<>>]}

\* Reader.__init__ (lines 26-32), beside a document
IuInit ==
    /\ ipc = "new"
    /\ document \in SeqsUpTo(DocEntries, MaxDocEntries)
    /\ termByCode = NoMap
    /\ iPos = 0
    /\ iYielded = <<>>

\* getTerm (lines 118-127): the text of <term> without the tags <i>, </i>
getTerm(termE) == SelectSeq(termE, LAMBDA c : c # 1 /\ c # 2)

\* str.split(sep)[-1]: what follows the last sep, or the whole str
RECURSIVE SplitLast(_, _)
SplitLast(str, sep) ==
    IF str = <<>> THEN <<>>
    ELSE IF str[Len(str)] = sep THEN <<>>
    ELSE Append(SplitLast(SubSeq(str, 1, Len(str) - 1), sep), str[Len(str)])

\* the loop of open() (lines 72-82) over the first n <entry> elements: the
\* dict termByCode as a function on the codes it holds; a later element
\* with the same code replaces the term
TermByCodeUpTo(elems, n) ==
    LET inMap == {i \in 1..n : i <= Len(elems) /\ elems[i].hasTerm /\ elems[i].hasCode}
        last(c) == CHOOSE i \in inMap :
                      /\ elems[i].code = c
                      /\ \A j \in inMap : elems[j].code = c => j <= i
    IN  [c \in {elems[i].code : i \in inMap} |-> getTerm(elems[last(c)].term)]

TermByCodeOfMut(elems) == TermByCodeUpTo(elems, 1)
TermByCodeOf(elems) == TermByCodeUpTo(elems, Len(elems))

\* open (lines 45-84): the whole file is parsed and the map is built
IuOpen ==
    /\ ipc = "new"
    /\ ipc' = "open"
    /\ termByCode' = TermByCodeOf(document)
    /\ UNCHANGED <<document, iPos, iYielded>>
    /\ UNCHANGED <<sqVars, wrVars, rdVars, zimVars>>

\* termByCode.get(replacedbyCode) with "if replacedbyTerm is None" (lines
\* 197-201)
ReplacedbyTerm(map, replacedby) ==
    LET replacedbyCode == SplitLast(replacedby, 46)
    IN  IF replacedbyCode \in DOMAIN map THEN map[replacedbyCode]
        ELSE replacedbyCode

\* termByCode.get(relatedCode) with "if not relatedTerm" (lines 210-215)
RelatedTerm(map, relatedURL) ==
    LET relatedCode == SplitLast(relatedURL, 47)
    IN  IF relatedCode \in DOMAIN map /\ map[relatedCode] # <<>>
        THEN map[relatedCode]
        ELSE relatedCode

\* the entry yielded for an <entry> element (lines 154-243): its words and
\* the targets of the links of its definition
IuEntry(map, elem, pos) ==
    [pos |-> pos,
     words |-> (IF getTerm(elem.term) # <<>> THEN <<getTerm(elem.term)>> ELSE <<>>)
               \o (IF elem.code # <<>> THEN <<elem.code>> ELSE <<>>),
     hasReplacedby |-> elem.hasReplacedby,
     replacedbyTerm |-> IF elem.hasReplacedby
                        THEN ReplacedbyTerm(map, elem.replacedby) ELSE <<>>,
     relatedTerms |-> [i \in 1..Len(elem.related) |->
                          RelatedTerm(map, elem.related[i])]]

\* the elements from position pos on (from 1) for which __iter__ reaches the
\* yield: those with a <code> and a <term> (lines 143-152)
IuYieldingFrom(pos) ==
    {k \in pos..Len(document) : document[k].hasCode /\ document[k].hasTerm}

\* next() on the generator of __iter__ (lines 129-248)
IuIterNext ==
    /\ ipc \in {"new", "open", "iterating", "closed"}
    /\ UNCHANGED <<document, termByCode>>
    /\ UNCHANGED <<sqVars, wrVars, rdVars, zimVars>>
    /\ IF ipc \in {"new", "closed"}
       THEN /\ ipc' = "raised"
            /\ UNCHANGED <<iPos, iYielded>>
       ELSE IF IuYieldingFrom(iPos + 1) # {}
       THEN LET k == CHOOSE k \in IuYieldingFrom(iPos + 1) :
                        \A j \in IuYieldingFrom(iPos + 1) : k <= j
            IN  /\ ipc' = "iterating"
                /\ iPos' = k
                /\ iYielded' = Append(iYielded, IuEntry(termByCode, document[k], k))
       ELSE /\ ipc' = "exhausted"
            /\ iPos' = Len(document)
            /\ UNCHANGED iYielded

\* close (lines 37-43), of a reader whose generator is not suspended
IuClose ==
    /\ ipc \in {"open", "exhausted"}
    /\ ipc' = "closed"
    /\ termByCode' = NoMap
    /\ UNCHANGED <<document, iPos, iYielded>>
    /\ UNCHANGED <<sqVars, wrVars, rdVars, zimVars>>

IuNext ==
    \/ IuOpen
    \/ IuIterNext
    \/ IuClose

(***************************************************************************)
(* Claims about the StarDict Writer, checked under SpecWriter.             *)
(***************************************************************************)
\* the records of the .idx and of the .syn on disk
IdxRecords == ScanIdx(idxFile.data, 0)
SynRecords == ScanSyn(synFile.data, 0)

\* the word entries fed so far, in the order fed
RECURSIVE WordEntriesOf(_)
WordEntriesOf(entries) ==
    IF entries = <<>> THEN <<>>
    ELSE IF Head(entries).isData THEN WordEntriesOf(Tail(entries))
    ELSE <<Head(entries)>> \o WordEntriesOf(Tail(entries))

WordEntries == WordEntriesOf(fed)

\* the length of the dict block of an entry in the layout in use (spec 4.4:
\* compact defi_utf8; general format_letter + defi_utf8 + NUL)
BlockLenOf(entry) == IF IsCompact THEN Len(entry.defi) ELSE Len(entry.defi) + 2

\* the offset of the dict block of the k-th word entry fed: the sum of the
\* lengths of the blocks of the word entries fed before it
BlockOffset(k) == SumSeq([j \in 1..(k - 1) |-> BlockLenOf(WordEntries[j])])

\* a <= b in the case-folded byte order: by the ASCII-lowercased bytes, then
\* by the raw bytes
FoldedLeq(a, b) ==
    \/ SeqLess(Lower(a), Lower(b))
    \/ Lower(a) = Lower(b) /\ (a = b \/ SeqLess(a, b))

\* the first items of the records are in non-decreasing case-folded order
SortedRecords(records) ==
    \A i \in 1..(Len(records) - 1) : FoldedLeq(records[i][1], records[i + 1][1])

\* C8: whatever was fed, and in each of the four layouts, after the sentinel
\* the .ifo is written and its idxfilesize is the byte length of the .idx
\* written by this run.
C8_IdxFileSizeInIfo ==
    (wpc \in {"done", "failed"}) =>
        /\ wpc = "done"
        /\ ifoFile.exists /\ ifoFile.fresh
        /\ idxFile.exists /\ idxFile.fresh
        /\ ifoFile.idxfilesize = Len(idxFile.data)

\* C9: in all four layouts every index record (word, offset, length) written
\* has offset + length <= size of .dict, and its offset is the sum of the
\* lengths of the dict blocks of the word entries fed before its entry; the
\* blocks follow each other in .dict without gap or overlap.  In the layouts
\* without merge the k-th record is that of the k-th word entry; in the merge
\* layouts every headword of every word entry has a record with the block of
\* its entry, and there is no other record.
C9_IdxRecordsPointIntoDict ==
    (wpc \in {"running", "done"} /\ idxFile.fresh) =>
        /\ \A i \in 1..Len(IdxRecords) :
              IdxRecords[i][2] + IdxRecords[i][3] <= Len(dictFile.data)
        /\ Len(dictFile.data) = BlockOffset(Len(WordEntries) + 1)
        /\ ~merge_syns =>
              IdxRecords = [k \in 1..Len(WordEntries) |->
                              <<WordEntries[k].l_word[1], BlockOffset(k),
                                BlockLenOf(WordEntries[k])>>]
        /\ merge_syns =>
              /\ Len(IdxRecords) =
                    SumSeq([k \in 1..Len(WordEntries) |-> Len(WordEntries[k].l_word)])
              /\ \A k \in 1..Len(WordEntries) :
                    \A w \in Range(WordEntries[k].l_word) :
                       <<w, BlockOffset(k), BlockLenOf(WordEntries[k])>>
                          \in Range(IdxRecords)
              /\ \A i \in 1..Len(IdxRecords) :
                    \E k \in 1..Len(WordEntries) :
                       /\ IdxRecords[i][1] \in Range(WordEntries[k].l_word)
                       /\ IdxRecords[i][2] = BlockOffset(k)
                       /\ IdxRecords[i][3] = BlockLenOf(WordEntries[k])

C9_Witness ==
    /\ wpc = "done"
    /\ merge_syns
    /\ idxFile.fresh
    /\ Len(WordEntries) = 2
    /\ Len(IdxRecords) = 3
    /\ \E i \in 1..Len(IdxRecords) : IdxRecords[i][2] > 0 /\ IdxRecords[i][3] > 0

\* C10 as stated: whatever the order in which the entries are fed, in every
\* layout the records of the written .idx are in non-decreasing order of the
\* case-folded byte key, and so are the records of the written .syn.
C10_IdxAndSynSorted ==
    (wpc = "done") =>
        /\ idxFile.fresh => SortedRecords(IdxRecords)
        /\ synFile.fresh => SortedRecords(SynRecords)

\* C10 amended: in the two merge layouts the records of the written .idx are
\* in non-decreasing order of the case-folded byte key whatever the order
\* fed; in the two layouts without merge the .idx holds the canonical
\* headwords in the order fed (so it is sorted only when the entries are fed
\* in key order), and the records of the written .syn are in non-decreasing
\* order of the case-folded byte key.
C10_MergedIdxAndSynSorted ==
    (wpc = "done") =>
        /\ (merge_syns /\ idxFile.fresh) => SortedRecords(IdxRecords)
        /\ ~merge_syns =>
              /\ Len(IdxRecords) = Len(WordEntries)
              /\ \A k \in 1..Len(WordEntries) :
                    IdxRecords[k][1] = WordEntries[k].l_word[1]
        /\ (~merge_syns /\ synFile.fresh) => SortedRecords(SynRecords)

C10_Witness ==
    /\ wpc = "done"
    /\ merge_syns
    /\ idxFile.fresh
    /\ Len(WordEntries) = 2
    /\ WordEntries[1].l_word = <<<<90>>>>
    /\ WordEntries[2].l_word = <<<<66>>, <<65>>>>
    /\ [i \in 1..Len(IdxRecords) |-> IdxRecords[i][1]] = <<<<65>>, <<66>>, <<90>>>>

\* the number of times x is an item of the list
Count(x, list) == Cardinality({i \in 1..Len(list) : list[i] = x})

\* one record (headword, offset, length) per headword of each word entry fed,
\* with the offset and the length of the single dict block of its entry
MergedRecordsOf(entries) ==
    Flatten([k \in 1..Len(entries) |->
        [i \in 1..Len(entries[k].l_word) |->
            <<entries[k].l_word[i], BlockOffset(k), BlockLenOf(entries[k])>>]])

\* the names of the data entries fed so far
DataNamesFed == {fed[i].l_word[1] : i \in {j \in 1..Len(fed) : fed[j].isData}}

\* C22: in the layouts without merge, every record (alt, k) of the .syn
\* written has k < wordcount of the .ifo, the k-th record (0-based) of the
\* .idx written has the first headword of the k-th word entry fed, and that
\* entry carried alt; every alternate fed has its record.  The data entries
\* fed are saved in res/ and advance neither entryIndex nor the dict offset.
C22_SynIndexIsIdxPosition ==
    /\ (wpc = "done" /\ ~merge_syns /\ synFile.fresh) =>
          /\ \A i \in 1..Len(SynRecords) :
                LET alt == SynRecords[i][1]
                    k == SynRecords[i][2]
                IN  /\ k < ifoFile.wordcount
                    /\ k + 1 <= Len(IdxRecords)
                    /\ k + 1 <= Len(WordEntries)
                    /\ IdxRecords[k + 1][1] = WordEntries[k + 1].l_word[1]
                    /\ alt \in Range(Tail(WordEntries[k + 1].l_word))
          /\ Len(SynRecords) =
                SumSeq([k \in 1..Len(WordEntries) |->
                           Len(WordEntries[k].l_word) - 1])
    /\ (wpc \in {"running", "done"} /\ ~merge_syns) =>
          /\ DataNamesFed = resDir.files
          /\ entryIndex = Len(WordEntries) - 1
          /\ dictMark = BlockOffset(Len(WordEntries) + 1)
          /\ Len(dictFile.data) = dictMark

C22_Witness ==
    /\ wpc = "done"
    /\ ~merge_syns
    /\ synFile.fresh
    /\ Len(fed) = 2
    /\ fed[1].isData
    /\ fed[2].l_word = <<<<66>>, <<65>>>>
    /\ SynRecords = <<<<<<65>>, 0>>>>
    /\ IdxRecords[1][1] = <<66>>
    /\ resDir.files = {<<102>>}

\* C11: with merge_syns (compact or general) each non-data entry with n
\* headwords (canonical + aliases) produces exactly n .idx records, all n
\* with the (offset, length) of the single dict block of that entry, and no
\* .syn file is written.
C11_MergedRecordsPerHeadword ==
    (wpc = "done" /\ merge_syns /\ WordEntries # <<>>) =>
        /\ Len(IdxRecords) = Len(MergedRecordsOf(WordEntries))
        /\ \A r \in Range(IdxRecords) \cup Range(MergedRecordsOf(WordEntries)) :
              Count(r, IdxRecords) = Count(r, MergedRecordsOf(WordEntries))
        /\ ~synFile.fresh
        /\ altIndexList = <<>>

C11_Witness ==
    /\ wpc = "done"
    /\ merge_syns
    /\ Len(WordEntries) = 2
    /\ WordEntries[1].defi # <<>>
    /\ WordEntries[2].l_word = <<<<66>>, <<65>>>>
    /\ Count(<<<<65>>, BlockOffset(2), BlockLenOf(WordEntries[2])>>, IdxRecords) = 1
    /\ Count(<<<<66>>, BlockOffset(2), BlockLenOf(WordEntries[2])>>, IdxRecords) = 1
    /\ BlockOffset(2) > 0
    /\ ~synFile.exists

\* C12: in every layout the wordcount of the .ifo is the number of non-data
\* entries fed (aliases not counted); in the merge layouts no positive
\* synwordcount is emitted, and in the layouts without merge synwordcount is
\* the number of alias records written to .syn.
C12_IfoCounts ==
    (wpc = "done") =>
        /\ ifoFile.wordcount = Len(WordEntries)
        /\ merge_syns => ifoFile.synwordcount = 0
        /\ ~merge_syns =>
              ifoFile.synwordcount = IF synFile.fresh THEN Len(SynRecords) ELSE 0

\* what C14 expects open() to leave: with the empty string and a sample,
\* "m" at 97 percent or more of m, else "h" above 50 percent of h, else the
\* empty string; null and a given letter are kept
SelectionOfC14(sts, stat) ==
    IF sts = "" /\ stat # NoStat
    THEN IF stat.m >= 97 THEN "m"
         ELSE IF stat.h > 50 THEN "h"
         ELSE ""
    ELSE sts

\* C14: open() with sametypesequence given as the empty string and a sample
\* of the first 100 formats selects m when at least 97% of the sample is m
\* (97 of 100 included), otherwise h when more than 50% is h, otherwise keeps
\* the general layout; with null no selection happens, and a given letter is
\* kept.
C14_AutoSelectThresholds ==
    [][\A stat \in DefiFormatStats :
          WrOpen(stat) =>
             sametypesequence' = SelectionOfC14(sametypesequence, stat)]_vars

\* The entries that the Reader yields from the files the Writer left: open()
\* scans the .idx and the .syn, takes sametypesequence from the .ifo, and
\* opens the .dict.dz that dictzip made or else the .dict.
ReadBack ==
    LET index_ == ScanIdx(idxFile.data, 0)
        syns == readSynFile([exists |-> synFile.exists, data |-> synFile.data],
                            Len(index_))
        items == [k \in 1..Len(index_) |->
                     RecordItem(index_, syns, ifoFile.sametypesequence,
                                dictFile.data, dictZipped, k - 1)]
        kept == SelectSeq(items, LAMBDA r : r.ok)
    IN  [k \in 1..Len(kept) |-> kept[k].item]

\* an entry up to its format and to the order of its alternates
SameUpTo(e) == <<e.l_word[1], Range(Tail(e.l_word)), e.defi>>

\* C13: for any glossary of entries (headword list, definition, format),
\* reading back the files that the writer produced yields the same entries
\* with the same headword lists and definitions, one read entry per written
\* entry and none dropped, up to the format and to the re-attachment of the
\* synonyms; also for entries with an empty definition in the compact layout.
C13_RoundTrip ==
    (wpc = "done") =>
        /\ Len(ReadBack) = Len(WordEntries)
        /\ \A x \in {SameUpTo(ReadBack[k]) : k \in 1..Len(ReadBack)}
                    \cup {SameUpTo(WordEntries[k]) : k \in 1..Len(WordEntries)} :
              Cardinality({k \in 1..Len(ReadBack) : SameUpTo(ReadBack[k]) = x})
                 = Cardinality({k \in 1..Len(WordEntries) :
                                   SameUpTo(WordEntries[k]) = x})

(***************************************************************************)
(* Claims about the StarDict Reader, checked under SpecReader.             *)
(***************************************************************************)
\* the reader is open and its generator, if started, has not failed
RdIsOpen == rpc \in {"open", "iterating", "exhausted"}

\* the dict block of index record k (from 0) as the files hold it
BlockOfRecord(k) ==
    SubSeq(dictOnDisk, indexData[k + 1][2] + 1,
           indexData[k + 1][2] + indexData[k + 1][3])

\* the dict block of record k reaches past the end of .dict
PastEnd(k) == indexData[k + 1][2] + indexData[k + 1][3] > Len(dictOnDisk)

\* the dict block of record k fails the parsing of the layout in use
FailsParsing(k) ==
    /\ ~PastEnd(k)
    /\ IF rSametypesequence # ""
       THEN ~parseDefiBlockCompact(BlockOfRecord(k), rSametypesequence).ok
       ELSE ~parseDefiBlockGeneral(BlockOfRecord(k)).ok

CorruptRecord(k) == PastEnd(k) \/ FailsParsing(k)

WellFormedRecord(k) == indexData[k + 1][1] # <<>> /\ ~CorruptRecord(k)

\* the items yielded for index record k
YieldedFor(k) == SelectSeq(yielded, LAMBDA it : ~it.isData /\ it.index = k)

\* C15: when the dict block of index record i is corrupt (it reaches past the
\* end of .dict, or it fails the compact/general parsing), iteration yields no
\* entry for record i, does not raise, and still yields the entry of every
\* later well-formed record j > i, with its own word and definition.
C15_CorruptBlockSkipped ==
    /\ (rpc = "raised") => ~rDictFile
    /\ (rpc = "exhausted") =>
          \A i \in 0..(Len(indexData) - 1) :
             CorruptRecord(i) =>
                /\ YieldedFor(i) = <<>>
                /\ \A j \in (i + 1)..(Len(indexData) - 1) :
                      WellFormedRecord(j) =>
                         /\ Len(YieldedFor(j)) = 1
                         /\ YieldedFor(j)[1].l_word[1] = indexData[j + 1][1]
                         /\ YieldedFor(j)[1].defi =
                               renderRawDefiList(
                                  (IF rSametypesequence # ""
                                   THEN parseDefiBlockCompact(BlockOfRecord(j),
                                                              rSametypesequence)
                                   ELSE parseDefiBlockGeneral(BlockOfRecord(j))).parts)[1]

\* the records of the .syn on disk, up to its first malformed position
SynOnDiskRecords == IF synOnDisk.exists THEN ScanSyn(synOnDisk.data, 0) ELSE <<>>

\* the alternates of the .syn records with entry_index = i, in file order
KeptAlternates(i) ==
    LET sel == SelectSeq(SynOnDiskRecords, LAMBDA r : r[2] = i)
    IN  [j \in 1..Len(sel) |-> sel[j][1]]

\* C16: readSynFile keeps exactly the .syn records whose entry_index <
\* word_count (the others are dropped and scanning goes on with the next
\* record), grouped per entry_index in file order; the entry yielded for
\* index record i has the headword list [word_i] followed by exactly the kept
\* alternates with entry_index = i.
C16_SynonymsKept ==
    RdIsOpen =>
        /\ DOMAIN synDict =
              {SynOnDiskRecords[j][2] : j \in 1..Len(SynOnDiskRecords)}
                 \cap (0..(rWordCount - 1))
        /\ \A i \in DOMAIN synDict : synDict[i] = KeptAlternates(i)
        /\ \A n \in 1..Len(yielded) :
              ~yielded[n].isData =>
                 yielded[n].l_word =
                    <<indexData[yielded[n].index + 1][1]>>
                       \o (IF yielded[n].index < rWordCount
                           THEN KeptAlternates(yielded[n].index) ELSE <<>>)

C16_Witness ==
    /\ rpc = "exhausted"
    /\ rWordCount = 2
    /\ Len(SynOnDiskRecords) = 3
    /\ SynOnDiskRecords[2][2] = 2
    /\ DOMAIN synDict = {0}
    /\ \E n \in 1..Len(yielded) :
          /\ yielded[n].index = 0
          /\ yielded[n].l_word = <<<<97>>, <<65>>, <<66>>>>

\* what is left of the .idx after the records that readIdxFile returned
IdxTail ==
    SubSeq(idxOnDisk, Len(IdxRecordBytes(indexData)) + 1, Len(idxOnDisk))

\* C17: readIdxFile always terminates (every record it returns takes at least
\* 9 bytes of the file) and returns, in file order, exactly the longest prefix of complete records (word bytes, NUL, 4-byte big-endian
\* offset, 4-byte big-endian length); at the first position where the NUL is
\* missing or fewer than 8 bytes follow it, scanning stops without raising
\* and no record is produced from the tail.
C17_IdxLongestPrefix ==
    RdIsOpen =>
          /\ Len(indexData) * 9 <= Len(idxOnDisk)
          /\ Len(IdxRecordBytes(indexData)) <= Len(idxOnDisk)
          /\ SubSeq(idxOnDisk, 1, Len(IdxRecordBytes(indexData)))
                = IdxRecordBytes(indexData)
          /\ \A k \in 1..Len(indexData) : 0 \notin Range(indexData[k][1])
          /\ \/ IdxTail = <<>>
             \/ FindNul(IdxTail, 0) < 0
             \/ FindNul(IdxTail, 0) + 1 + 8 > Len(IdxTail)

C17_Witness ==
    /\ rpc = "open"
    /\ Len(indexData) = 2
    /\ IdxTail = <<122, 0, 0, 0, 0, 1>>

\* C20: in one iteration of an open reader, word entries are yielded in
\* increasing index-record position, each index record yields at most one
\* entry, and every DataEntry (one per file of res/) is yielded only after
\* the last word entry; the number of items yielded never exceeds
\* len(reader) = word_count + resource_count.
C20_EmissionOrder ==
    RdIsOpen =>
        /\ \A m, n \in 1..Len(yielded) :
              (m < n /\ ~yielded[m].isData /\ ~yielded[n].isData) =>
                 yielded[m].index < yielded[n].index
        /\ \A m, n \in 1..Len(yielded) :
              (m < n /\ yielded[m].isData) =>
                 /\ yielded[n].isData
                 /\ yielded[m].l_word # yielded[n].l_word
        /\ \A n \in 1..Len(yielded) :
              yielded[n].isData => yielded[n].l_word[1] \in Range(resFileNames)
        /\ Len(yielded) <= ReaderLen

C20_Witness ==
    /\ rpc = "exhausted"
    /\ Len(yielded) = 4
    /\ ~yielded[1].isData /\ ~yielded[2].isData
    /\ yielded[3].isData /\ yielded[4].isData
    /\ ReaderLen = 4

(***************************************************************************)
(* The claim about the ZIM Reader, checked under SpecZim.                  *)
(***************************************************************************)
\* the items yielded for the archive entry id
ZimYieldedFor(id) == SelectSeq(zYielded, LAMBDA it : it.id = id)

\* C18: for an archive entry whose MIME type cannot be read the reader emits
\* that entry as one DataEntry and goes on to the next entry id without
\* falling through to the MIME classification; so every archive entry id
\* produces at most one emitted item, no MIME value of an earlier entry is
\* used to classify it, and the iteration of an open reader does not raise.
C18_InvalidMimeIsTerminal ==
    /\ (zpc = "raised") => ~zimfile
    /\ \A id \in 0..(Len(archive) - 1) :
          /\ Len(ZimYieldedFor(id)) <= 1
          /\ archive[id + 1].mime = InvalidMime =>
                \A n \in 1..Len(ZimYieldedFor(id)) :
                   ZimYieldedFor(id)[n].kind = "data"

(***************************************************************************)
(* The claim about the IUPAC Reader, checked under SpecIupac.              *)
(***************************************************************************)
\* the <entry> elements of the document that have the code and a <term>
TargetsOf(code) ==
    {k \in 1..Len(document) :
        document[k].hasCode /\ document[k].hasTerm /\ document[k].code = code}

\* the term of the code: that of the last such element of the document
TermOfCode(code) ==
    getTerm(document[CHOOSE k \in TargetsOf(code) :
                        \A j \in TargetsOf(code) : j <= k].term)

\* a link to the code targets an entry of the file that has a term
HasTarget(code) == TargetsOf(code) # {} /\ TermOfCode(code) # <<>>

\* C19: the code->term map is completely built over the whole file before
\* the first entry is emitted, so for every emitted entry a replacedby or
\* related link whose target code belongs to an entry of the file with a
\* term is rendered with that term and never with the raw code, also when
\* the target entry comes later in the document than the referring entry.
C19_LinksUseTerms ==
    /\ (iYielded # <<>>) => (ipc # "new")
    /\ (ipc \in {"open", "iterating", "exhausted"}) =>
          \A code \in {document[k].code : k \in 1..Len(document)} :
             HasTarget(code) =>
                code \in DOMAIN termByCode /\ termByCode[code] = TermOfCode(code)
    /\ \A n \in 1..Len(iYielded) :
          LET elem == document[iYielded[n].pos]
          IN  /\ (elem.hasReplacedby /\ HasTarget(SplitLast(elem.replacedby, 46))) =>
                    /\ iYielded[n].replacedbyTerm =
                          TermOfCode(SplitLast(elem.replacedby, 46))
                    /\ iYielded[n].replacedbyTerm # SplitLast(elem.replacedby, 46)
              /\ \A r \in 1..Len(elem.related) :
                    HasTarget(SplitLast(elem.related[r], 47)) =>
                       /\ iYielded[n].relatedTerms[r] =
                             TermOfCode(SplitLast(elem.related[r], 47))
                       /\ iYielded[n].relatedTerms[r] # SplitLast(elem.related[r], 47)

C19_Witness ==
    /\ Len(document) >= 2
    /\ document[1].hasReplacedby
    /\ document[1].replacedby = <<120, 46, 66>>
    /\ document[2].hasCode /\ document[2].code = <<66>>
    /\ Len(iYielded) >= 1
    /\ iYielded[1].pos = 1
    /\ iYielded[1].replacedbyTerm = <<98>>

(***************************************************************************)
(* The specifications: each part runs with the other part left as it was   *)
(* constructed.                                                            *)
(***************************************************************************)
SqParked ==
    /\ create = TRUE
    /\ persist = FALSE
    /\ SqInit

WrParked ==
    /\ sametypesequence = ""
    /\ merge_syns = FALSE
    /\ dictzip = FALSE
    /\ dictFile = NoFile
    /\ WrInit

RdParked ==
    /\ ifoSametypesequence = ""
    /\ idxOnDisk = <<>>
    /\ synOnDisk = [exists |-> FALSE, data |-> <<>>]
    /\ dictGz = FALSE
    /\ resOnDisk = <<>>
    /\ RdInit

ZimParked ==
    /\ archive = <<>>
    /\ ZimInit

IuParked ==
    /\ document = <<>>
    /\ IuInit

\* a new SqEntryList, beside a writer and readers that are never used
InitSq == WrParked /\ RdParked /\ ZimParked /\ IuParked /\ SqInit

SpecSq == InitSq /\ [][SqNext]_vars

\* a new Writer, beside a store and readers that are never used
InitWriter == SqParked /\ RdParked /\ ZimParked /\ IuParked /\ WrInit

SpecWriter == InitWriter /\ [][WrNext]_vars

\* a new StarDict Reader beside the files of a dictionary
InitReader == SqParked /\ WrParked /\ ZimParked /\ IuParked /\ RdInit

SpecReader == InitReader /\ [][RdNext]_vars

\* a new ZIM Reader beside an archive
InitZim == SqParked /\ WrParked /\ RdParked /\ IuParked /\ ZimInit

SpecZim == InitZim /\ [][ZimNext]_vars

\* a new IUPAC Reader beside a document
InitIupac == SqParked /\ WrParked /\ RdParked /\ ZimParked /\ IuInit

SpecIupac == InitIupac /\ [][IuNext]_vars

=============================================================================
